---- MODULE Spec2Model ----
(***************************************************************************)
(* rhino_gh_mcp: the HTTP bridge that runs inside Rhino                    *)
(* (Rhino/rhino_bridge_server.py), the decorator registry and its          *)
(* directory-scan discovery (Tools/tool_registry.py), the tool modules     *)
(* (Tools/*.py) and the transport client (MCP/bridge_client.py).           *)
(*                                                                         *)
(* A JSON object is a TLA+ record, a JSON/Python list a sequence, Python's *)
(* None the string "None".  An f-string that embeds an exception is the    *)
(* pair <<prefix, message>>.  A number is a normalised fraction <<n, d>>.  *)
(***************************************************************************)
EXTENDS Integers, Sequences, FiniteSets, TLC

(* ----------------------------- bounds --------------------------------- *)
\* Largest num_divisions a generate_truss request of the bridge runs carries.
MaxDivisions == 1
\* Object ids the host document hands out before the runs stop adding lines.
MaxIds == 3
\* The rs.AddLine call of a request (1..MaxFaultAt) that a host fault hits.
MaxFaultAt == 1
\* Decorator applications in the body of a module added to the Tools directory.
MaxAddedDeclarations == 2
\* Clients that send requests to the bridge at the same time.
MaxClients == 2
\* RhinoBridgeServer instances created in one Rhino session.
MaxServers == 3

VARIABLES
    RHINO_AVAILABLE,        \* rhino_bridge_server.py module flag (line 24/27)
    GRASSHOPPER_AVAILABLE,  \* rhino_bridge_server.py module flag (line 34/37)
    hostGh,                 \* whether the Grasshopper modules are importable now
    docActive,              \* whether the host has an active document now
    doc,                    \* the host document: sequence of objects
    nextId,                 \* next object id the host hands out
    last,                   \* the request being answered and what the bridge did with it
    faults,                 \* whether a handler has raised so far
    _rhino_tools,           \* tool_registry._rhino_tools
    _gh_tools,              \* tool_registry._gh_tools
    _bridge_handlers,       \* tool_registry._bridge_handlers
    sys_modules,            \* modules the interpreter holds as imported
    disc,                   \* what the last discover_tools() call printed
    cwd,                    \* working directory of the MCP server process
    call,                   \* the last tool call and its result
    prev,                   \* the request served before `last` on this document
    gh_host,                \* the Grasshopper plug-in: canvas, sliders, solver
    batch,                  \* the last handle_set_multiple_sliders call
    single,                 \* the last gh_tools handle_set_slider call
    listening,              \* whether a bridge process listens at BRIDGE_URL
    bridge_server,          \* rhino_bridge_server.bridge_server: an instance or None
    servers,                \* the RhinoBridgeServer instances created so far
    backlog,                \* connections made to the port and not yet accepted
    executing,              \* the requests a server thread is running a handler for
    lifecycle               \* the last start_bridge_server / stop_bridge_server call

hostVars == <<RHINO_AVAILABLE, GRASSHOPPER_AVAILABLE, hostGh, docActive, doc, nextId>>
bridgeVars == <<last, faults>>
regVars == <<_rhino_tools, _gh_tools, _bridge_handlers, sys_modules, disc, cwd>>
ghVars == <<gh_host, batch, single>>
srvVars == <<bridge_server, servers, backlog, executing, lifecycle>>
vars == <<hostVars, bridgeVars, regVars, call, prev, ghVars, listening, srvVars>>

None == "None"

\* os.path.dirname(__file__) of tool_registry.py, and the directory the MCP
\* server is started from ("python MCP/main.py").
tools_dir == "src/Tools"
LaunchDir == "src"

(* ------------------------ numbers and points --------------------------- *)
Abs(n) == IF n < 0 THEN -n ELSE n

RECURSIVE Gcd(_, _)
Gcd(a, b) == IF b = 0 THEN a ELSE Gcd(b, a % b)

\* The number n/d (d > 0), in lowest terms.
Frac(n, d) ==
    LET g == Gcd(Abs(n), d)
    IN  IF g = 0 THEN <<0, 1>> ELSE <<n \div g, d \div g>>

Num(n) == <<n, 1>>
FAdd(p, q) == Frac(p[1] * q[2] + q[1] * p[2], p[2] * q[2])
FSub(p, q) == Frac(p[1] * q[2] - q[1] * p[2], p[2] * q[2])
FMul(p, q) == Frac(p[1] * q[1], p[2] * q[2])

Pt(x, y, z) == <<Num(x), Num(y), Num(z)>>

(* --------------------------- host document ----------------------------- *)
\* rs.AddLine: a new curve object; its user text is unset.
NewLine(id, s, e) ==
    [id |-> id, object_type |-> None, member_type |-> None, start |-> s, end |-> e]

\* rs.SetUserText(line_id, "object_type", "truss_member") and
\* rs.SetUserText(line_id, "member_type", mtype) on the object with that id.
SetUserText(d, id, mtype) ==
    [i \in 1..Len(d) |->
        IF d[i].id = id
        THEN [d[i] EXCEPT !.object_type = "truss_member", !.member_type = mtype]
        ELSE d[i]]

(* --------------------------- truss generator --------------------------- *)
\* str.lower() on the topology names the runs use; a string without upper-case
\* letters is its own lower-case form.
Lower(s) ==
    CASE s = "Pratt" -> "pratt"
      [] s = "PRATT" -> "pratt"
      [] s = "Warren" -> "warren"
      [] s = "Vierendeel" -> "vierendeel"
      [] s = "Howe" -> "howe"
      [] s = "Brown" -> "brown"
      [] s = "Onedir" -> "onedir"
      [] s = "Fink" -> "fink"
      [] s = "Width" -> "width"
      [] s = "Height" -> "height"
      [] s = "Count" -> "count"
      [] s = "Nope" -> "nope"
      [] OTHER -> s

\* A JSON scalar of a request body: a string, a number or a boolean, tagged
\* with its type as Python's isinstance sees it.
JStr(s) == [t |-> "str", s |-> s, v |-> <<0, 1>>]
JNum(n) == [t |-> "num", s |-> "", v |-> Num(n)]
JBool(b) == [t |-> "bool", s |-> "", v |-> IF b THEN Num(1) ELSE Num(0)]

IsString(v) == v.t = "str"

\* division_points_top[i]: start_point + (i / divisions) * upper_vector.
TopPoint(start_point, end_point, divisions, i) ==
    [k \in 1..3 |->
        FAdd(start_point[k],
             FMul(Frac(i, divisions),
                  FSub(end_point[k], start_point[k])))]

\* Bottom points offset along the y axis (a variant the chord properties must
\* tell from the code).
BottomPoint_offset_along_y(start_point, end_point, depth, divisions, i) ==
    <<TopPoint(start_point, end_point, divisions, i)[1],
      FSub(TopPoint(start_point, end_point, divisions, i)[2], depth),
      TopPoint(start_point, end_point, divisions, i)[3]>>

\* division_points_bottom[i]: the top point offset by depth_vector = [0, 0, -depth].
BottomPoint(start_point, end_point, depth, divisions, i) ==
    LET top == TopPoint(start_point, end_point, divisions, i)
    IN  <<FAdd(top[1], Num(0)), FAdd(top[2], Num(0)), FSub(top[3], depth)>>

\* One rs.AddLine call of the generator with what is appended for it: the
\* line runs from ls to le, the member reports start ms and end me; defer
\* marks a line whose tagging waits for the next rs.AddLine call (Brown).
Planned(type, ls, le, ms, me, defer) ==
    [type |-> type, ls |-> ls, le |-> le, ms |-> ms, me |-> me, defer |-> defer]

\* In the definitions below T and B are division_points_top and
\* division_points_bottom, functions on 0..divisions.
TopChords(T, divisions) ==
    [j \in 1..divisions |-> Planned("top_chord", T[j - 1], T[j], T[j - 1], T[j], FALSE)]

BottomChords(B, divisions) ==
    [j \in 1..divisions |-> Planned("bottom_chord", B[j - 1], B[j], B[j - 1], B[j], FALSE)]

\* One vertical per bay instead of one per point (a variant the member counts
\* must tell from the code).
Verticals_one_per_bay(T, B, divisions) ==
    [j \in 1..divisions |->
        Planned("vertical", T[j - 1], B[j - 1], T[j - 1], B[j - 1], FALSE)]

Verticals(T, B, divisions) ==
    [j \in 1..(divisions + 1) |->
        Planned("vertical", T[j - 1], B[j - 1], T[j - 1], B[j - 1], FALSE)]

\* Alternating diagonals that start top->bottom (a variant the diagonal
\* directions must tell from the code).
AlternatingDiagonals_from_top(T, B, divisions) ==
    [j \in 1..divisions |->
        IF (j - 1) % 2 = 0
        THEN Planned("diagonal", T[j - 1], B[j], T[j - 1], B[j], FALSE)
        ELSE Planned("diagonal", B[j - 1], T[j], B[j - 1], T[j], FALSE)]

\* Diagonals alternating per bay, bottom->top in even bays (Pratt, Warren, default).
AlternatingDiagonals(T, B, divisions) ==
    [j \in 1..divisions |->
        LET i == j - 1
        IN  IF i % 2 = 0
            THEN Planned("diagonal", B[i], T[i + 1], B[i], T[i + 1], FALSE)
            ELSE Planned("diagonal", T[i], B[i + 1], T[i], B[i + 1], FALSE)]

\* Howe: top->bottom in even bays.
MirroredDiagonals(T, B, divisions) ==
    [j \in 1..divisions |->
        LET i == j - 1
        IN  IF i % 2 = 0
            THEN Planned("diagonal", T[i], B[i + 1], T[i], B[i + 1], FALSE)
            ELSE Planned("diagonal", B[i], T[i + 1], B[i], T[i + 1], FALSE)]

\* Brown: both diagonals of a bay are drawn, then both are tagged and appended.
BothDiagonals(T, B, divisions) ==
    [j \in 1..(2 * divisions) |->
        LET i == (j - 1) \div 2
        IN  IF j % 2 = 1
            THEN Planned("diagonal", B[i], T[i + 1], B[i], T[i + 1], TRUE)
            ELSE Planned("diagonal", T[i], B[i + 1], T[i], B[i + 1], FALSE)]

OneDirDiagonals(T, B, divisions) ==
    [j \in 1..divisions |->
        Planned("diagonal", B[j - 1], T[j], B[j - 1], T[j], FALSE)]

\* Web members with an else branch that draws a Warren web (a variant the
\* default-topology property must tell from the code).
WebMembers_else_warren(T, B, divisions, lowered) ==
    CASE lowered = "pratt" ->
            Verticals(T, B, divisions) \o AlternatingDiagonals(T, B, divisions)
      [] lowered = "vierendeel" -> Verticals(T, B, divisions)
      [] lowered = "howe" ->
            Verticals(T, B, divisions) \o MirroredDiagonals(T, B, divisions)
      [] lowered = "brown" ->
            Verticals(T, B, divisions) \o BothDiagonals(T, B, divisions)
      [] lowered = "onedir" -> OneDirDiagonals(T, B, divisions)
      [] OTHER -> AlternatingDiagonals(T, B, divisions)

\* The web members of the topology branch taken for truss_type.lower().
WebMembers(T, B, divisions, lowered) ==
    CASE lowered = "pratt" ->
            Verticals(T, B, divisions) \o AlternatingDiagonals(T, B, divisions)
      [] lowered = "warren" -> AlternatingDiagonals(T, B, divisions)
      [] lowered = "vierendeel" -> Verticals(T, B, divisions)
      [] lowered = "howe" ->
            Verticals(T, B, divisions) \o MirroredDiagonals(T, B, divisions)
      [] lowered = "brown" ->
            Verticals(T, B, divisions) \o BothDiagonals(T, B, divisions)
      [] lowered = "onedir" -> OneDirDiagonals(T, B, divisions)
      [] OTHER ->
            Verticals(T, B, divisions) \o AlternatingDiagonals(T, B, divisions)

\* What the k-th rs.AddLine call of a request does under the host fault:
\* "id" (a line is created), "None" (no line) or "raise".
AddLineOutcome(fault, k) ==
    CASE fault.kind = "allnone" -> "None"
      [] fault.kind = "none" /\ fault.at = k -> "None"
      [] fault.kind = "raise" /\ fault.at = k -> "raise"
      [] OTHER -> "id"

Member(id, p) == [id |-> id, type |-> p.type, start |-> p.ms, end |-> p.me]

\* The state of the generator's loops between two rs.AddLine calls: the
\* document, the next id, truss_members, the Brown line drawn and not yet
\* tagged (<<>> when there is none), and whether an rs.AddLine call raised.
Drawing(d, id, members, held, raised) ==
    [doc |-> d, nextId |-> id, truss_members |-> members, held |-> held,
     raised |-> raised]

\* rs.SetUserText on the line held back, and its append, once the second
\* rs.AddLine call of a Brown bay has returned.
TagHeld(w) ==
    IF w.held = <<>> THEN w
    ELSE Drawing(SetUserText(w.doc, w.held[1].id, w.held[1].p.type), w.nextId,
                 Append(w.truss_members, Member(w.held[1].id, w.held[1].p)), <<>>,
                 FALSE)

\* One planned line whose rs.AddLine call returned a line id: the line is added;
\* it is tagged and appended at once, or held back (Brown's first diagonal).
DrawOne(w, p) ==
    IF p.defer
    THEN Drawing(Append(w.doc, NewLine(w.nextId, p.ls, p.le)), w.nextId + 1,
                 w.truss_members, <<[id |-> w.nextId, p |-> p]>>, FALSE)
    ELSE Drawing(SetUserText(Append(w.doc, NewLine(w.nextId, p.ls, p.le)), w.nextId, p.type),
                 w.nextId + 1, Append(w.truss_members, Member(w.nextId, p)), <<>>,
                 FALSE)

\* One rs.AddLine call with the rs.SetUserText calls and appends that follow it.
DrawStep(w, p, outcome) ==
    CASE outcome = "raise" ->
            Drawing(w.doc, w.nextId, w.truss_members, w.held, TRUE)
      [] outcome = "None" -> IF p.defer THEN w ELSE TagHeld(w)
      [] OTHER -> IF p.defer THEN DrawOne(w, p) ELSE DrawOne(TagHeld(w), p)

\* The generator's rs.AddLine / rs.SetUserText / append steps over the planned
\* lines, from the k-th on; they stop at the first rs.AddLine call that raises.
RECURSIVE DrawPlanned(_, _, _, _)
DrawPlanned(plan, k, fault, w) ==
    IF w.raised \/ k > Len(plan)
    THEN [raised |-> w.raised, doc |-> w.doc, nextId |-> w.nextId,
          truss_members |-> w.truss_members]
    ELSE DrawPlanned(plan, k + 1, fault, DrawStep(w, plan[k], AddLineOutcome(fault, k)))

\* The except clause of create_truss_geometry: [] is returned, the lines
\* drawn so far stay in the document.
geometry_result(run, failed) ==
    IF run.raised \/ failed
    THEN [raised |-> TRUE, doc |-> run.doc, nextId |-> run.nextId, truss_members |-> <<>>]
    ELSE run

\* The rs.AddLine calls of create_truss_geometry in the order it makes them.
truss_plan(T, B, divisions, truss_type) ==
    IF IsString(truss_type)
    THEN TopChords(T, divisions) \o BottomChords(B, divisions)
         \o WebMembers(T, B, divisions, Lower(truss_type.s))
    ELSE TopChords(T, divisions) \o BottomChords(B, divisions)

\* RhinoBridgeHandler.create_truss_geometry: the members it returns and the
\* document it leaves. Any exception inside it is caught and [] returned:
\* i / divisions raises for divisions = 0, truss_type.lower() for a non-string.
create_truss_geometry(start_point, end_point, depth, divisions, truss_type, fault, d, id) ==
    IF divisions = 0
    THEN [raised |-> TRUE, doc |-> d, nextId |-> id, truss_members |-> <<>>]
    ELSE geometry_result(
            DrawPlanned(
                truss_plan(
                    [i \in 0..divisions |-> TopPoint(start_point, end_point, divisions, i)],
                    [i \in 0..divisions |->
                        BottomPoint(start_point, end_point, depth, divisions, i)],
                    divisions, truss_type),
                1, fault, Drawing(d, id, <<>>, <<>>, FALSE)),
            ~IsString(truss_type))

\* RhinoBridgeHandler.clear_previous_trusses: deletes the objects whose
\* "object_type" user text is "truss_member".
clear_previous_trusses(d) ==
    SelectSeq(d, LAMBDA o : o.object_type # "truss_member")

(* ------------------------- JSON and conversions ------------------------ *)
EmptyObject == <<>>

\* dict.get(key, default) on a JSON object.
Get(data, key, default) == IF key \in DOMAIN data THEN data[key] ELSE default

\* float(v) raises ValueError on a string that is no number; the runs' strings
\* are none of them numbers.
FloatRaises(v) == IsString(v)

\* float(v) of a number (a bool is a number to float()).
Float(v) == v.v

\* The truth value Python's if gives a JSON scalar.
Truthy(v) == IF IsString(v) THEN v.s # "" ELSE v.v[1] # 0

\* int(v): truncation towards zero of a number.
IntOf(v) == IF v[1] < 0 THEN -((-v[1]) \div v[2]) ELSE v[1] \div v[2]

(* ----------------------------- responses ------------------------------- *)
\* send_json_response(data, status_code): one HTTP response written.
send_json_response(data, status_code) == <<[http |-> status_code, body |-> data]>>

\* A send_error_response that leaves the HTTP status at 200 (a variant the
\* error-status properties must tell from the code).
send_error_response_status_200(status_code, message) ==
    send_json_response(
        [success |-> FALSE, error |-> message, status_code |-> status_code], 200)

\* send_error_response(status_code, message).
send_error_response(status_code, message) ==
    send_json_response(
        [success |-> FALSE, error |-> message, status_code |-> status_code],
        status_code)

\* What a handler hands back to do_POST: the responses it wrote, the exception
\* its try block raised (None when none), whether it called a document API of
\* the host, the availability checks it made first, and the host document.
Handled(sent, exc, touched, probes, d, id) ==
    [sent |-> sent, exc |-> exc, touched |-> touched, probes |-> probes,
     doc |-> d, nextId |-> id]

\* data.get(...) on a request body that is JSON but no object.
NoGet == "object has no attribute 'get'"

(* ------------------------------ handlers ------------------------------- *)
CoordKeys == {"start_x", "start_y", "start_z", "end_x", "end_y", "end_z"}

\* An except clause of handle_draw_line that reports the exception as a
\* logical failure (a variant the exception properties must tell from the code).
draw_line_except_as_failure(msg, touched, d, id) ==
    Handled(send_json_response(
                [success |-> FALSE, error |-> <<"Error drawing line: ", msg>>,
                 line_id |-> None], 200),
            msg, touched, <<>>, d, id)

\* The except clause of handle_draw_line.
draw_line_except(msg, touched, d, id) ==
    Handled(send_error_response(500, <<"Error drawing line: ", msg>>),
            msg, touched, <<>>, d, id)

\* RhinoBridgeHandler.handle_draw_line.
handle_draw_line(b, fault, d, id) ==
    IF b.kind # "object" THEN draw_line_except(NoGet, FALSE, d, id)
    ELSE IF \E k \in CoordKeys : FloatRaises(Get(b.data, k, JNum(0)))
    THEN draw_line_except("could not convert string to float", FALSE, d, id)
    ELSE IF ~RHINO_AVAILABLE
    THEN Handled(send_json_response(
                    [success |-> FALSE, error |-> <<"Rhino is not available", "">>,
                     line_id |-> None], 200),
                 None, FALSE, <<"RHINO_AVAILABLE">>, d, id)
    ELSE
        LET start_point == <<Float(Get(b.data, "start_x", JNum(0))), Float(Get(b.data, "start_y", JNum(0))),
                             Float(Get(b.data, "start_z", JNum(0)))>>
            end_point == <<Float(Get(b.data, "end_x", JNum(0))), Float(Get(b.data, "end_y", JNum(0))),
                           Float(Get(b.data, "end_z", JNum(0)))>>
            out == AddLineOutcome(fault, 1)
        IN  CASE out = "raise" -> draw_line_except("rs.AddLine failed", TRUE, d, id)
              [] out = "None" ->
                    Handled(send_json_response(
                                [success |-> FALSE,
                                 error |-> <<"Failed to create line in Rhino", "">>,
                                 line_id |-> None], 200),
                            None, TRUE, <<"RHINO_AVAILABLE">>, d, id)
              [] OTHER ->
                    Handled(send_json_response(
                                [success |-> TRUE, line_id |-> id,
                                 start_point |-> start_point, end_point |-> end_point], 200),
                            None, TRUE, <<"RHINO_AVAILABLE">>,
                            Append(d, NewLine(id, start_point, end_point)), id + 1)

\* The mock slider table of handle_list_sliders.
MockSliders ==
    << [name |-> "Width", current_value |-> Num(10), min |-> Num(0), max |-> Num(100)],
       [name |-> "Height", current_value |-> Num(20), min |-> Num(0), max |-> Num(50)],
       [name |-> "Count", current_value |-> Num(5), min |-> Num(1), max |-> Num(20)] >>

\* RhinoBridgeHandler.handle_list_sliders (it reads nothing of data).
handle_list_sliders(b, fault, d, id) ==
    IF ~GRASSHOPPER_AVAILABLE
    THEN Handled(send_json_response(
                    [success |-> FALSE, error |-> <<"Grasshopper is not available", "">>,
                     sliders |-> <<>>], 200),
                 None, FALSE, <<"GRASSHOPPER_AVAILABLE">>, d, id)
    ELSE Handled(send_json_response(
                    [success |-> TRUE, sliders |-> MockSliders, count |-> Len(MockSliders)],
                    200),
                 None, FALSE, <<"GRASSHOPPER_AVAILABLE">>, d, id)

\* The except clause of handle_set_slider.
set_slider_except(msg, d, id) ==
    Handled(send_error_response(500, <<"Error setting slider: ", msg>>),
            msg, FALSE, <<>>, d, id)

\* RhinoBridgeHandler.handle_set_slider (a mock: it touches no slider).
handle_set_slider(b, fault, d, id) ==
    IF b.kind # "object" THEN set_slider_except(NoGet, d, id)
    ELSE
        LET slider_name == Get(b.data, "slider_name", JStr(""))
            raw_value == Get(b.data, "new_value", JNum(0))
            new_value == Float(raw_value)
        IN  IF FloatRaises(raw_value)
            THEN set_slider_except("could not convert string to float", d, id)
            ELSE IF ~GRASSHOPPER_AVAILABLE
            THEN Handled(send_json_response(
                            [success |-> FALSE,
                             error |-> <<"Grasshopper is not available", "">>,
                             slider_name |-> slider_name, new_value |-> new_value], 200),
                         None, FALSE, <<"GRASSHOPPER_AVAILABLE">>, d, id)
            ELSE IF ~IsString(slider_name)
            THEN set_slider_except("object has no attribute 'lower'", d, id)
            ELSE IF Lower(slider_name.s) \in {"width", "height", "count"}
            THEN Handled(send_json_response(
                            [success |-> TRUE, slider_name |-> slider_name,
                             old_value |-> Num(10), new_value |-> new_value], 200),
                         None, FALSE, <<"GRASSHOPPER_AVAILABLE">>, d, id)
            ELSE Handled(send_json_response(
                            [success |-> FALSE,
                             error |-> <<"Slider not found", slider_name>>,
                             slider_name |-> slider_name, new_value |-> new_value], 200),
                         None, FALSE, <<"GRASSHOPPER_AVAILABLE">>, d, id)

\* RhinoBridgeHandler.handle_get_rhino_info: a failure of the rs.* calls is
\* caught by the inner try and reported in info["rhino_error"].
handle_get_rhino_info(b, fault, d, id) ==
    IF ~RHINO_AVAILABLE
    THEN Handled(send_json_response(
                    [success |-> FALSE, error |-> <<"Rhino is not available", "">>,
                     info |-> EmptyObject], 200),
                 None, FALSE, <<"RHINO_AVAILABLE">>, d, id)
    ELSE
        LET info == IF fault.kind = "ok"
                    THEN [rhino_available |-> RHINO_AVAILABLE,
                          grasshopper_available |-> GRASSHOPPER_AVAILABLE,
                          object_count |-> Len(d)]
                    ELSE [rhino_available |-> RHINO_AVAILABLE,
                          grasshopper_available |-> GRASSHOPPER_AVAILABLE,
                          rhino_error |-> "rs call failed"]
        IN  Handled(send_json_response([success |-> TRUE, info |-> info], 200),
                    None, TRUE, <<"RHINO_AVAILABLE">>, d, id)

TrussNumberKeys == {"upper_line_start_x", "upper_line_start_y", "upper_line_start_z",
                    "upper_line_end_x", "upper_line_end_y", "upper_line_end_z",
                    "truss_depth", "num_divisions"}

\* The except clause of handle_generate_truss.
generate_truss_except(msg, d, id) ==
    Handled(send_error_response(500, <<"Error generating truss: ", msg>>),
            msg, FALSE, <<>>, d, id)

\* The response of handle_generate_truss for what create_truss_geometry returned.
\* The response reporting a truss whatever the list of members holds (a
\* variant the property of empty trusses must tell from the code).
truss_response_always_success(g, truss_depth, num_divisions, truss_type, clear_previous) ==
    Handled(send_json_response(
                [success |-> TRUE, truss_members |-> g.truss_members,
                 num_members |-> Len(g.truss_members),
                 truss_depth |-> truss_depth, num_divisions |-> num_divisions,
                 truss_type |-> truss_type], 200),
            None, TRUE, <<"RHINO_AVAILABLE">>, g.doc, g.nextId)

truss_response(g, truss_depth, num_divisions, truss_type, clear_previous) ==
    IF g.truss_members # <<>>
    THEN Handled(send_json_response(
                    [success |-> TRUE, truss_members |-> g.truss_members,
                     num_members |-> Len(g.truss_members),
                     truss_depth |-> truss_depth, num_divisions |-> num_divisions,
                     truss_type |-> truss_type], 200),
                 None, TRUE, <<"RHINO_AVAILABLE">>, g.doc, g.nextId)
    ELSE Handled(send_json_response(
                    [success |-> FALSE, error |-> <<"Failed to create truss in Rhino", "">>,
                     truss_members |-> <<>>], 200),
                 None, clear_previous \/ num_divisions >= 1, <<"RHINO_AVAILABLE">>,
                 g.doc, g.nextId)

\* The else branch of handle_generate_truss: clear, generate, respond.
generate_truss(data, fault, d, id, num_divisions, clear_previous) ==
    truss_response(
        create_truss_geometry(
            <<Float(Get(data, "upper_line_start_x", JNum(0))),
              Float(Get(data, "upper_line_start_y", JNum(0))),
              Float(Get(data, "upper_line_start_z", JNum(0)))>>,
            <<Float(Get(data, "upper_line_end_x", JNum(10))),
              Float(Get(data, "upper_line_end_y", JNum(0))),
              Float(Get(data, "upper_line_end_z", JNum(0)))>>,
            Float(Get(data, "truss_depth", JNum(2))),
            num_divisions,
            Get(data, "truss_type", JStr("Pratt")),
            fault,
            IF clear_previous THEN clear_previous_trusses(d) ELSE d,
            id),
        Float(Get(data, "truss_depth", JNum(2))), num_divisions,
        Get(data, "truss_type", JStr("Pratt")), clear_previous)

\* RhinoBridgeHandler.handle_generate_truss.
handle_generate_truss(b, fault, d, id) ==
    IF b.kind # "object" THEN generate_truss_except(NoGet, d, id)
    ELSE IF \E k \in TrussNumberKeys : FloatRaises(Get(b.data, k, JNum(0)))
    THEN generate_truss_except("could not convert string to float", d, id)
    ELSE IF ~RHINO_AVAILABLE
    THEN Handled(send_json_response(
                    [success |-> FALSE, error |-> <<"Rhino is not available", "">>,
                     truss_members |-> <<>>], 200),
                 None, FALSE, <<"RHINO_AVAILABLE">>, d, id)
    ELSE generate_truss(b.data, fault, d, id,
                        IntOf(Float(Get(b.data, "num_divisions", JNum(4)))),
                        Truthy(Get(b.data, "clear_previous", JBool(TRUE))))

(* ------------------------------ dispatch ------------------------------- *)
\* The paths the if/elif chain of do_POST routes, with the method each runs.
RoutedPosts == {"/draw_line", "/list_sliders", "/set_slider", "/get_rhino_info",
                "/generate_truss"}
GetPaths == {"/status", "/info"}

HandlerName(endpoint) ==
    CASE endpoint = "/draw_line" -> "RhinoBridgeHandler.handle_draw_line"
      [] endpoint = "/list_sliders" -> "RhinoBridgeHandler.handle_list_sliders"
      [] endpoint = "/set_slider" -> "RhinoBridgeHandler.handle_set_slider"
      [] endpoint = "/get_rhino_info" -> "RhinoBridgeHandler.handle_get_rhino_info"
      [] endpoint = "/generate_truss" -> "RhinoBridgeHandler.handle_generate_truss"
      [] OTHER -> None

\* The branch of the if/elif chain taken for endpoint.
RunHandler(endpoint, b, fault, d, id) ==
    CASE endpoint = "/draw_line" -> handle_draw_line(b, fault, d, id)
      [] endpoint = "/list_sliders" -> handle_list_sliders(b, fault, d, id)
      [] endpoint = "/set_slider" -> handle_set_slider(b, fault, d, id)
      [] endpoint = "/get_rhino_info" -> handle_get_rhino_info(b, fault, d, id)
      [] OTHER -> handle_generate_truss(b, fault, d, id)

\* send_status_response: the module flags as they were set at import.
send_status_response ==
    send_json_response(
        [status |-> "running", rhino_available |-> RHINO_AVAILABLE,
         grasshopper_available |-> GRASSHOPPER_AVAILABLE], 200)

\* send_info_response: the fixed endpoint list.
send_info_response ==
    send_json_response(
        [name |-> "Rhino HTTP Bridge Server", version |-> "1.0.0",
         endpoints |-> <<"/status", "/info", "/draw_line", "/list_sliders",
                         "/set_slider", "/get_rhino_info", "/generate_truss">>], 200)

\* What the bridge did with one request: the responses written, the handlers
\* invoked, the exception a handler's try block raised, the exception do_POST's
\* own except clauses caught, the steps taken, and the host document after it.
Served(sent, handlers, exc, caught, steps, touched, probes, d, id) ==
    [sent |-> sent, handlers |-> handlers, exc |-> exc, caught |-> caught,
     steps |-> steps, touched |-> touched, probes |-> probes, doc |-> d, nextId |-> id]

\* do_POST after the handler method h returned: it wrote the response itself.
Dispatched(name, h) ==
    Served(h.sent, <<name>>, h.exc, None,
           IF h.exc = None
           THEN <<"Received", "Routed", "Executed", "Responded">>
           ELSE <<"Received", "Routed", "HandlerException", "Responded">>,
           h.touched, h.probes, h.doc, h.nextId)

\* RhinoBridgeHandler.do_GET: self.path, query string included, is compared.
do_GET(req, d, id) ==
    IF req.path = "/status" /\ ~req.query
    THEN Served(send_status_response, <<>>, None, None,
                <<"Received", "Routed", "Executed", "Responded">>, FALSE, <<>>, d, id)
    ELSE IF req.path = "/info" /\ ~req.query
    THEN Served(send_info_response, <<>>, None, None,
                <<"Received", "Routed", "Executed", "Responded">>, FALSE, <<>>, d, id)
    ELSE Served(send_error_response(404, <<"Endpoint not found", "">>), <<>>, None, None,
                <<"Received", "RoutedFailed", "Responded">>, FALSE, <<>>, d, id)

\* RhinoBridgeHandler.do_POST: the body is read and parsed before the path is
\* routed; json.JSONDecodeError is answered 400, any other exception 500.
do_POST(req, fault, d, id) ==
    IF req.clen = "malformed"
    THEN Served(send_error_response(500, <<"Internal server error: ",
                                           "invalid literal for int()">>),
                <<>>, None, "ValueError",
                <<"Received", "BridgeException", "Responded">>, FALSE, <<>>, d, id)
    ELSE IF req.clen = "positive" /\ req.body.kind = "badutf8"
    THEN Served(send_error_response(500, <<"Internal server error: ",
                                           "'utf-8' codec can't decode">>),
                <<>>, None, "UnicodeDecodeError",
                <<"Received", "BridgeException", "Responded">>, FALSE, <<>>, d, id)
    ELSE IF req.clen = "positive" /\ req.body.kind = "badjson"
    THEN Served(send_error_response(400, <<"Invalid JSON in request body", "">>),
                <<>>, None, "JSONDecodeError",
                <<"Received", "BodyParseFailed", "Responded">>, FALSE, <<>>, d, id)
    ELSE
        LET request_data == IF req.clen = "positive" THEN req.body
                            ELSE [kind |-> "object", data |-> EmptyObject]
        IN  IF req.path \in RoutedPosts
            THEN Dispatched(HandlerName(req.path),
                            RunHandler(req.path, request_data, fault, d, id))
            ELSE Served(send_error_response(404, <<"Unknown endpoint: ", req.path>>),
                        <<>>, None, None,
                        <<"Received", "RoutedFailed", "Responded">>, FALSE, <<>>, d, id)

\* BaseHTTPRequestHandler calls do_GET or do_POST by the request's method.
Serve(req, fault, d, id) ==
    IF req.method = "GET" THEN do_GET(req, d, id) ELSE do_POST(req, fault, d, id)

(* ------------------- Grasshopper batch slider update ------------------- *)
\* Longest slider_updates dictionary a set_multiple_sliders call carries.
MaxUpdates == 2

FLeq(p, q) == p[1] * q[2] <= q[1] * p[2]
FMax(p, q) == IF FLeq(p, q) THEN q ELSE p
FMin(p, q) == IF FLeq(p, q) THEN p ELSE q

\* A Grasshopper.Kernel.Special.GH_NumberSlider of the canvas document.
GH_NumberSlider(NickName, Value, Minimum, Maximum) ==
    [NickName |-> NickName, Value |-> Value, Minimum |-> Minimum, Maximum |-> Maximum]

\* The Grasshopper plug-in when the host starts: a canvas with a document that
\* holds a slider "A" with bounds [0, 10] and a slider without a nickname; the
\* solver is enabled.
GrasshopperHost ==
    [plugin |-> TRUE, canvas |-> TRUE, solver |-> TRUE,
     sliders |-> <<GH_NumberSlider("A", Num(3), Num(0), Num(10)),
                   GH_NumberSlider("", Num(5), Num(1), Num(20))>>]

\* slider_name = obj.NickName or "Unnamed".
NickNameOrUnnamed(obj) == IF obj.NickName = "" THEN "Unnamed" ELSE obj.NickName

\* slider_components: the cache of sliders by name; of two sliders with one
\* name the later one of gh_doc.Objects stays.
slider_components(sliders) ==
    [n \in {NickNameOrUnnamed(sliders[i]) : i \in DOMAIN sliders} |->
        CHOOSE i \in DOMAIN sliders :
            /\ NickNameOrUnnamed(sliders[i]) = n
            /\ \A j \in DOMAIN sliders : NickNameOrUnnamed(sliders[j]) = n => j <= i]

\* A clamp that always answers the slider's maximum (a variant the batch
\* properties must tell from the code).
clamped_value_always_maximum(obj, new_value) == obj.Maximum

\* clamped_value = max(Minimum, min(Maximum, float(new_value))).
clamped_value(obj, new_value) == FMax(obj.Minimum, FMin(obj.Maximum, new_value))

\* The least magnitude str() of a float writes without an exponent: below
\* 1e-04 the text is in scientific notation ('1e-05').
PointNotationFrom == 10000

\* str(x) of a float: the shortest text that reads back as x, in scientific
\* notation when x is not zero and below 1/PointNotationFrom in magnitude, in
\* point notation otherwise.
str(x) ==
    [notation |-> IF x[1] # 0 /\ Abs(x[1]) * PointNotationFrom < x[2]
                  THEN "scientific" ELSE "point",
     digits |-> x]

\* System.Decimal.Parse(s) raises FormatException on a text with an exponent
\* (NumberStyles.Number does not allow one).
Decimal_Parse_raises(s) == s.notation = "scientific"

\* System.Decimal.Parse(s) of a text in point notation.
Decimal_Parse(s) == s.digits

\* The batch loop between two items: the sliders, results and success_count.
Batch(sliders, results, success_count) ==
    [sliders |-> sliders, results |-> results, success_count |-> success_count]

\* One iteration of the loop over slider_updates.items(): the slider is set and
\* a success appended, or a failure is appended (slider not found, or an
\* exception of the iteration caught by its except clause).
UpdateItem(w, item, raises) ==
    IF item.name \notin DOMAIN slider_components(w.sliders)
    THEN Batch(w.sliders,
               Append(w.results,
                      [slider_name |-> item.name, success |-> FALSE,
                       error |-> <<"Slider '", item.name, "' not found">>]),
               w.success_count)
    ELSE IF FloatRaises(item.value)
    THEN Batch(w.sliders,
               Append(w.results,
                      [slider_name |-> item.name, success |-> FALSE,
                       error |-> <<"Error setting slider: ",
                                   "could not convert string to float">>]),
               w.success_count)
    ELSE IF Decimal_Parse_raises(
                str(clamped_value(w.sliders[slider_components(w.sliders)[item.name]],
                                  Float(item.value))))
    THEN Batch(w.sliders,
               Append(w.results,
                      [slider_name |-> item.name, success |-> FALSE,
                       error |-> <<"Error setting slider: ",
                                   "Input string was not in a correct format.">>]),
               w.success_count)
    ELSE IF raises
    THEN Batch(w.sliders,
               Append(w.results,
                      [slider_name |-> item.name, success |-> FALSE,
                       error |-> <<"Error setting slider: ", "host error">>]),
               w.success_count)
    ELSE Batch([w.sliders EXCEPT ![slider_components(w.sliders)[item.name]].Value =
                    Decimal_Parse(str(
                      clamped_value(w.sliders[slider_components(w.sliders)[item.name]],
                                    Float(item.value))))],
               Append(w.results,
                      [slider_name |-> item.name, success |-> TRUE,
                       old_value |-> w.sliders[slider_components(w.sliders)[item.name]].Value,
                       new_value |->
                           clamped_value(w.sliders[slider_components(w.sliders)[item.name]],
                                         Float(item.value)),
                       clamped |->
                           clamped_value(w.sliders[slider_components(w.sliders)[item.name]],
                                         Float(item.value)) # Float(item.value)]),
               w.success_count + 1)

\* The for loop over slider_updates.items(), from the k-th item on.
RECURSIVE UpdateLoop(_, _, _, _)
UpdateLoop(items, k, fault, w) ==
    IF k > Len(items) THEN w
    ELSE UpdateLoop(items, k + 1, fault,
                    UpdateItem(w, items[k], fault.kind = "item" /\ fault.at = k))

\* What a call of handle_set_multiple_sliders leaves: the dictionary it
\* returns, the calls it made on the solver in their order, and the plug-in.
BatchOutcome(response, log, h) == [response |-> response, log |-> log, host |-> h]

\* The solver after the calls of log, from the state enabled.
RECURSIVE SolverAfter(_, _, _)
SolverAfter(log, k, enabled) ==
    IF k > Len(log) THEN enabled
    ELSE SolverAfter(log, k + 1,
                     CASE log[k] = "DisableSolver" -> FALSE
                       [] log[k] = "EnableSolver" -> TRUE
                       [] OTHER -> enabled)

\* The plug-in after a call that met the solver with log and left sliders.
HostAfter(h, sliders, log) ==
    [h EXCEPT !.sliders = sliders, !.solver = SolverAfter(log, 1, h.solver)]

\* The outer except Exception clause of handle_set_multiple_sliders.
batch_except(msg, log, h, sliders) ==
    BatchOutcome([success |-> FALSE,
                  error |-> <<"Error in batch slider update: ", msg>>,
                  traceback |-> "traceback"],
                 log, HostAfter(h, sliders, log))

\* gh.DisableSolver(), the loop, gh.EnableSolver() and gh_doc.NewSolution(True);
\* the inner except clause calls gh.EnableSolver() and raises again.
batch_update(slider_updates, fault, h) ==
    IF slider_updates.kind # "dict"
    THEN batch_except("object has no attribute 'items'",
                      <<"DisableSolver", "EnableSolver">>, h, h.sliders)
    ELSE
        LET w == UpdateLoop(slider_updates.items, 1, fault, Batch(h.sliders, <<>>, 0))
        IN  IF fault.kind = "recompute"
            THEN batch_except("NewSolution failed",
                              <<"DisableSolver", "EnableSolver", "NewSolution",
                                "EnableSolver">>, h, w.sliders)
            ELSE BatchOutcome(
                    [success |-> TRUE, results |-> w.results,
                     total_updates |-> Len(slider_updates.items),
                     successful_updates |-> w.success_count,
                     failed_updates |-> Len(slider_updates.items) - w.success_count],
                    <<"DisableSolver", "EnableSolver", "NewSolution">>,
                    HostAfter(h, w.sliders,
                              <<"DisableSolver", "EnableSolver", "NewSolution">>))

\* gh_tools.handle_set_multiple_sliders(data), run in a host where the
\* Grasshopper modules can be imported (importable) or not.
handle_set_multiple_sliders(data, fault, h, importable) ==
    IF ~importable
    THEN BatchOutcome([success |-> FALSE,
                       error |-> <<"Grasshopper not available: ", "No module named 'clr'">>],
                      <<>>, h)
    ELSE IF Get(data, "slider_updates", [kind |-> "dict", items |-> <<>>]).items = <<>>
    THEN BatchOutcome([success |-> FALSE, error |-> <<"No slider updates provided">>],
                      <<>>, h)
    ELSE IF ~h.plugin
    THEN BatchOutcome([success |-> FALSE, error |-> <<"Grasshopper plugin not available">>],
                      <<>>, h)
    ELSE IF ~h.canvas
    THEN BatchOutcome([success |-> FALSE,
                       error |-> <<"No active Grasshopper document found">>],
                      <<>>, h)
    ELSE batch_update(Get(data, "slider_updates", [kind |-> "dict", items |-> <<>>]),
                      fault, h)

\* The number of sliders of each name.
NameCounts(sliders) ==
    [n \in {NickNameOrUnnamed(sliders[i]) : i \in DOMAIN sliders} |->
        Cardinality({i \in DOMAIN sliders : NickNameOrUnnamed(sliders[i]) = n})]

\* What a call of handle_set_slider leaves: the dictionary it returns and the
\* plug-in.
SliderOutcome(response, h) == [response |-> response, host |-> h]

\* The for loop of handle_set_slider stops at the first slider of
\* gh_doc.Objects whose name is slider_name (break).
first_slider(sliders, slider_name) ==
    CHOOSE i \in DOMAIN sliders :
        /\ NickNameOrUnnamed(sliders[i]) = slider_name
        /\ \A j \in DOMAIN sliders : NickNameOrUnnamed(sliders[j]) = slider_name => i <= j

\* The except Exception clause of handle_set_slider.
slider_except(msg, data, h) ==
    SliderOutcome([success |-> FALSE, error |-> <<"Error setting slider: ", msg>>,
                   traceback |-> "traceback",
                   slider_name |-> Get(data, "slider_name", JStr("")),
                   new_value |-> Get(data, "new_value", JNum(0))], h)

\* The loop of handle_set_slider on a canvas that holds a slider of the name:
\* the value is clamped, parsed and assigned, the solution recomputed.
set_slider(slider_name, new_value, data, fault, h) ==
    LET i == first_slider(h.sliders, slider_name)
        obj == h.sliders[i]
        c == clamped_value(obj, new_value)
        set == [h EXCEPT !.sliders[i].Value = Decimal_Parse(str(c))]
    IN  IF Decimal_Parse_raises(str(c))
        THEN slider_except("Input string was not in a correct format.", data, h)
        ELSE IF fault.kind = "recompute"
        THEN slider_except("NewSolution failed", data, set)
        ELSE SliderOutcome([success |-> TRUE, slider_name |-> slider_name,
                            old_value |-> obj.Value, new_value |-> c,
                            clamped |-> c # new_value,
                            message |-> <<"Slider '", slider_name, "' updated to ", c,
                                          IF c # new_value THEN " (clamped from " ELSE "">>],
                           set)

\* gh_tools.handle_set_slider(data), run in a host where the Grasshopper
\* modules can be imported (importable) or not.
gh_tools_handle_set_slider(data, fault, h, importable) ==
    IF ~importable
    THEN SliderOutcome([success |-> FALSE,
                        error |-> <<"Grasshopper not available: ", "No module named 'clr'">>,
                        slider_name |-> Get(data, "slider_name", JStr("")),
                        new_value |-> Get(data, "new_value", JNum(0))], h)
    ELSE IF FloatRaises(Get(data, "new_value", JNum(0)))
    THEN slider_except("could not convert string to float", data, h)
    ELSE IF ~h.plugin
    THEN SliderOutcome([success |-> FALSE, error |-> <<"Grasshopper plugin not available">>,
                        slider_name |-> Get(data, "slider_name", JStr("")).s,
                        new_value |-> Float(Get(data, "new_value", JNum(0)))], h)
    ELSE IF ~h.canvas
    THEN SliderOutcome([success |-> FALSE,
                        error |-> <<"No active Grasshopper document found">>,
                        slider_name |-> Get(data, "slider_name", JStr("")).s,
                        new_value |-> Float(Get(data, "new_value", JNum(0)))], h)
    ELSE IF \A i \in DOMAIN h.sliders :
                NickNameOrUnnamed(h.sliders[i]) # Get(data, "slider_name", JStr("")).s
    THEN SliderOutcome([success |-> FALSE,
                        error |-> <<"Slider '", Get(data, "slider_name", JStr("")).s,
                                    "' not found">>,
                        slider_name |-> Get(data, "slider_name", JStr("")).s,
                        new_value |-> Float(Get(data, "new_value", JNum(0)))], h)
    ELSE set_slider(Get(data, "slider_name", JStr("")).s,
                    Float(Get(data, "new_value", JNum(0))), data, fault, h)

\* The values the calls ask for: 5 lies within the bounds of every slider, 999
\* above every maximum, 1/100000 within the bounds of slider "A", "abc" is no
\* number.
RequestedValues ==
    {JNum(5), JNum(999), [t |-> "num", s |-> "", v |-> Frac(1, 10 * PointNotationFrom)],
     JStr("abc")}

\* The bodies of the set_slider calls: "B" names no slider of the canvas.
SliderBodies ==
    [slider_name : {JStr("A"), JStr("B"), JStr("Unnamed")}, new_value : RequestedValues]
    \cup {EmptyObject}

\* Host faults a set_slider call can meet: none, gh_doc.NewSolution raises.
SliderFaults == {[kind |-> "ok", at |-> 1], [kind |-> "recompute", at |-> 1]}

\* The sliders of the Grasshopper definitions the user opens: the one of
\* GrasshopperHost, and one that holds a second slider without a nickname.
GrasshopperDocuments ==
    {GrasshopperHost.sliders,
     <<GH_NumberSlider("A", Num(3), Num(0), Num(10)),
       GH_NumberSlider("", Num(5), Num(1), Num(20)),
       GH_NumberSlider("", Num(6), Num(1), Num(20))>>}

\* The slider_updates dictionaries of at most MaxUpdates entries, as the
\* sequences of their items (a key occurs once): "B" names no slider of the
\* canvas, 999 lies above every slider's maximum, "abc" is no number.
UpdateDicts ==
    UNION {{u \in [1..n -> [name : {"A", "B", "Unnamed"},
                            value : RequestedValues]] :
                \A i, j \in 1..n : u[i].name = u[j].name => i = j} : n \in 0..MaxUpdates}

\* The bodies of the calls: a dictionary of updates, a string in its place,
\* or no slider_updates key.
BatchBodies ==
    {[slider_updates |-> [kind |-> "dict", items |-> u]] : u \in UpdateDicts}
    \cup {[slider_updates |-> [kind |-> "str", items |-> <<"W">>]], EmptyObject}

\* Host faults a batch can meet: none, the assignment of the at-th item's
\* slider value raises, gh_doc.NewSolution raises.
BatchFaults(data) ==
    IF "slider_updates" \in DOMAIN data /\ data.slider_updates.kind = "dict"
    THEN {[kind |-> "ok", at |-> 1], [kind |-> "recompute", at |-> 1]}
         \cup [kind : {"item"}, at : 1..Len(data.slider_updates.items)]
    ELSE {[kind |-> "ok", at |-> 1]}

(* ---------------------------- bridge server ---------------------------- *)
\* A RhinoBridgeServer instance: self.server (None, or an HTTPServer whose
\* socket is open or closed), whether self.server_thread is alive, and whether
\* shutdown() has been asked of serve_forever.
RhinoBridgeServer(server, thread, shutdown) ==
    [server |-> server, thread |-> thread, shutdown |-> shutdown]

\* An instance after start(): the socket bound to the port and listening, the
\* thread in serve_forever.
RunningServer == RhinoBridgeServer("open", TRUE, FALSE)

\* is_running() answering that no thread is alive (a variant the lifecycle
\* property must tell from the code).
is_running_never(instance) == FALSE

\* RhinoBridgeServer.is_running().
is_running(instance) == instance.thread

\* The port is bound by an instance whose socket is open.
PortBound == \E i \in DOMAIN servers : servers[i].server = "open"

\* RhinoBridgeServer.start(): HTTPServer binds the port and the thread is
\* started; when the port is bound already the exception is printed and the
\* instance is left without server and thread.
start == IF PortBound THEN RhinoBridgeServer(None, FALSE, FALSE) ELSE RunningServer

\* A thread per request (ThreadingHTTPServer) in the place of HTTPServer: the
\* server takes the next connection while a handler runs (a variant the
\* serialization property must tell from the code).
ServerThreadFree_thread_per_request(i) == TRUE

\* HTTPServer handles one request at a time in the thread of serve_forever:
\* it takes the next connection when the handler of the last one has returned.
ServerThreadFree(i) == \A e \in executing : e.instance # i

(* ------------------------------ requests ------------------------------- *)
\* Host faults: none; the at-th rs.AddLine call of the request returns None or
\* raises; every rs.AddLine call returns None.
NoFault == [kind |-> "ok", at |-> 1]
Faults ==
    {NoFault, [kind |-> "allnone", at |-> 1]}
    \cup [kind : {"none", "raise"}, at : 1..MaxFaultAt]

Object(data) == [kind |-> "object", data |-> data]

\* Bodies every path is sent: bytes that are no UTF-8, text that is no JSON, a
\* JSON list, an empty JSON object.
CommonBodies ==
    {[kind |-> "badutf8", data |-> EmptyObject], [kind |-> "badjson", data |-> EmptyObject],
     [kind |-> "list", data |-> EmptyObject], Object(EmptyObject)}

BodiesFor(path) ==
    CommonBodies \cup
    CASE path = "/draw_line" -> {Object([start_x |-> JStr("abc")])}
      [] path = "/set_slider" ->
            {Object([slider_name |-> JStr("Width"), new_value |-> JNum(5)]),
             Object([slider_name |-> JStr("Nope"), new_value |-> JNum(5)]),
             Object([slider_name |-> JNum(5), new_value |-> JNum(5)]),
             Object([slider_name |-> JStr("width"), new_value |-> JStr("abc")])}
      [] path = "/generate_truss" ->
            {Object([num_divisions |-> JNum(n), truss_type |-> JStr("warren"),
                     clear_previous |-> JBool(c)]) :
                n \in 0..MaxDivisions, c \in BOOLEAN}
            \cup {Object([num_divisions |-> JNum(MaxDivisions), truss_type |-> JNum(5)]),
                  Object([num_divisions |-> JStr("abc")])}
      [] OTHER -> {}

\* The paths of the POST requests: the routed ones, one served to GET only, one
\* served to nobody.
PostPaths == RoutedPosts \cup {"/status", "/set_multiple_sliders", "/nope"}

\* A request without a body carries no Content-Length, or a malformed one.
Requests ==
    [method : {"GET"}, path : GetPaths \cup {"/draw_line", "/nope"}, query : BOOLEAN,
     clen : {"absent"}, body : {Object(EmptyObject)}]
    \cup [method : {"POST"}, path : PostPaths, query : {FALSE},
          clen : {"absent", "malformed"}, body : {Object(EmptyObject)}]
    \cup [method : {"POST"}, path : {"/list_sliders", "/nope"}, query : {TRUE},
          clen : {"absent"}, body : {Object(EmptyObject)}]
    \cup UNION {[method : {"POST"}, path : {p}, query : {FALSE}, clen : {"positive"},
                 body : BodiesFor(p)] : p \in PostPaths}

\* The host faults a request can meet: only a handler that reaches the rs.*
\* calls meets one, and without an active document no line is ever created.
FaultsFor(req) ==
    IF /\ req.method = "POST"
       /\ RHINO_AVAILABLE
       /\ req.clen # "malformed"
       /\ req.clen = "positive" => req.body.kind = "object"
    THEN CASE req.path \in {"/draw_line", "/generate_truss"} ->
                IF docActive THEN Faults
                ELSE {[kind |-> "allnone", at |-> 1], [kind |-> "raise", at |-> 1]}
           [] req.path = "/get_rhino_info" ->
                IF docActive THEN {NoFault, [kind |-> "raise", at |-> 1]}
                ELSE {[kind |-> "raise", at |-> 1]}
           [] OTHER -> {NoFault}
    ELSE {NoFault}

Init ==
    /\ RHINO_AVAILABLE \in BOOLEAN
    /\ hostGh \in BOOLEAN
    /\ GRASSHOPPER_AVAILABLE = hostGh
    /\ docActive \in {RHINO_AVAILABLE, FALSE}
    /\ doc = <<>>
    /\ nextId = 1
    /\ last = [handled |-> FALSE]
    /\ faults = FALSE
    /\ _rhino_tools = <<>>
    /\ _gh_tools = <<>>
    /\ _bridge_handlers = <<>>
    /\ sys_modules = {}
    /\ disc = [done |-> FALSE]
    /\ cwd = LaunchDir
    /\ call = [made |-> FALSE]
    /\ prev = [handled |-> FALSE]
    /\ gh_host = GrasshopperHost
    /\ batch = [made |-> FALSE]
    /\ single = [made |-> FALSE]
    /\ listening = TRUE
    /\ bridge_server = 1
    /\ servers = <<RunningServer>>
    /\ backlog = <<>>
    /\ executing = {}
    /\ lifecycle = [op |-> "start", before |-> 0, running |-> FALSE, returned |-> 1]

\* The host environment changes between two requests: Grasshopper is loaded
\* or unloaded, the active document is closed or a new one is opened (object
\* ids are told apart within one document only).
EnvChange ==
    /\ ~last.handled
    /\ \/ /\ hostGh' = ~hostGh
          /\ UNCHANGED <<docActive, doc, nextId>>
       \/ /\ RHINO_AVAILABLE
          /\ docActive' = ~docActive
          /\ doc' = <<>>
          /\ nextId' = 1
          /\ UNCHANGED hostGh
    /\ UNCHANGED <<RHINO_AVAILABLE, GRASSHOPPER_AVAILABLE, bridgeVars, regVars, call,
                   prev, ghVars, listening, srvVars>>

\* HTTPServer serves one connection at a time: the response written, the
\* connection is closed and the server is free for the next request.
ConnectionClosed ==
    /\ last.handled
    /\ last' = [handled |-> FALSE]
    /\ UNCHANGED <<hostVars, faults, regVars, call, prev, ghVars, listening, srvVars>>

\* The server thread takes one request and runs its handler to the end.
BridgeRequest ==
    /\ ~last.handled
    /\ \E req \in Requests :
           \E fault \in FaultsFor(req) :
               /\ last' = [handled |-> TRUE, req |-> req, fault |-> fault,
                           out |-> Serve(req, fault, doc, nextId),
                           hostGh |-> hostGh, docActive |-> docActive]
               /\ last'.out.nextId <= MaxIds + 1
               /\ doc' = last'.out.doc
               /\ nextId' = last'.out.nextId
               /\ faults' = (faults \/ last'.out.exc # None)
               /\ UNCHANGED <<RHINO_AVAILABLE, GRASSHOPPER_AVAILABLE, hostGh, docActive,
                                  regVars, call, prev, ghVars, listening, srvVars>>

(* ---------------------------- tool discovery --------------------------- *)
\* The entries os.listdir(tools_dir) returns for src/Tools.
File(name, ext) == [name |-> name, ext |-> ext]
ToolFiles ==
    {File("gh_tools", ".py"), File("rhino_tools", ".py"), File("test_tools", ".py"),
     File("tool_registry", ".py"), File("utility_tools", ".py")}

\* os.listdir returns the entries in arbitrary order.
DirListings ==
    {l \in [1..Cardinality(ToolFiles) -> ToolFiles] :
        \A i, j \in 1..Cardinality(ToolFiles) : l[i] = l[j] => i = j}

\* The names tool_registry defines for a tool module to import.
RegistryDecorators == {"rhino_tool", "gh_tool", "bridge_handler"}

\* The names each tool module imports from tool_registry.
ImportedNames(module_name) ==
    CASE module_name = "gh_tools" -> {"gh_tool", "bridge_handler"}
      [] module_name = "rhino_tools" -> {"rhino_tool"}
      [] module_name = "test_tools" -> {"rhino_tool", "gh_tool", "bridge_handler"}
      [] module_name = "utility_tools" -> {"utility_tool", "bridge_handler"}
      [] OTHER -> {}

\* A decorated tool function: the endpoint its call_bridge_api call posts to.
Thunk(def, endpoint) == [def |-> def, endpoint |-> endpoint]

\* One decorator application of a module, in the order of its source.
Tool(decorator, name, def, endpoint) ==
    [decorator |-> decorator, name |-> name, function |-> Thunk(def, endpoint),
     endpoint |-> endpoint]
Handler(endpoint, def) ==
    [decorator |-> "bridge_handler", name |-> def, function |-> def, endpoint |-> endpoint]

\* A gh_tool of gh_tools.py followed by the bridge_handler of its endpoint.
GhPair(name, def, endpoint, handler) ==
    <<Tool("gh_tool", name, def, endpoint), Handler(endpoint, handler)>>

gh_tools_py ==
    GhPair("list_grasshopper_sliders", "gh_tools.list_grasshopper_sliders",
           "/list_sliders", "gh_tools.handle_list_sliders")
    \o GhPair("set_grasshopper_slider", "gh_tools.set_grasshopper_slider",
              "/set_slider", "gh_tools.handle_set_slider")
    \o GhPair("get_grasshopper_overview", "gh_tools.get_grasshopper_overview",
              "/grasshopper_overview", "gh_tools.handle_grasshopper_overview")
    \o GhPair("analyze_grasshopper_sliders", "gh_tools.analyze_grasshopper_sliders",
              "/analyze_sliders", "gh_tools.handle_analyze_sliders")
    \o GhPair("get_grasshopper_components", "gh_tools.get_grasshopper_components",
              "/get_components", "gh_tools.handle_get_components")
    \o GhPair("set_multiple_grasshopper_sliders", "gh_tools.set_multiple_grasshopper_sliders",
              "/set_multiple_sliders", "gh_tools.handle_set_multiple_sliders")
    \o GhPair("debug_grasshopper_state", "gh_tools.debug_grasshopper_state",
              "/debug_state", "gh_tools.handle_debug_state")
    \o GhPair("list_grasshopper_valuelist_components",
              "gh_tools.list_grasshopper_valuelist_components",
              "/list_valuelists", "gh_tools.handle_list_valuelists")
    \o GhPair("set_grasshopper_valuelist_selection",
              "gh_tools.set_grasshopper_valuelist_selection",
              "/set_valuelist_selection", "gh_tools.handle_set_valuelist_selection")
    \o GhPair("list_grasshopper_panels", "gh_tools.list_grasshopper_panels",
              "/list_panels", "gh_tools.handle_list_panels")
    \o GhPair("set_grasshopper_panel_text", "gh_tools.set_grasshopper_panel_text",
              "/set_panel_text", "gh_tools.handle_set_panel_text")
    \o GhPair("get_grasshopper_panel_data", "gh_tools.get_grasshopper_panel_data",
              "/get_panel_data", "gh_tools.handle_get_panel_data")
    \o GhPair("analyze_grasshopper_inputs_with_context",
              "gh_tools.analyze_grasshopper_inputs_with_context",
              "/analyze_inputs_context", "gh_tools.handle_analyze_inputs_context")
    \o GhPair("analyze_grasshopper_outputs_with_context",
              "gh_tools.analyze_grasshopper_outputs_with_context",
              "/analyze_outputs_context", "gh_tools.handle_analyze_outputs_context")
    \o GhPair("set_grasshopper_geometry_input", "gh_tools.set_grasshopper_geometry_input",
              "/set_geometry_input", "gh_tools.handle_set_geometry_input")
    \o GhPair("extract_grasshopper_geometry_output",
              "gh_tools.extract_grasshopper_geometry_output",
              "/extract_geometry_output", "gh_tools.handle_extract_geometry_output")

rhino_tools_py ==
    <<Tool("rhino_tool", "draw_line_rhino", "rhino_tools.draw_line_rhino", "/draw_line"),
      Tool("rhino_tool", "get_rhino_info", "rhino_tools.get_rhino_info", "/get_rhino_info"),
      Tool("rhino_tool", "typical_roof_truss_generator",
           "rhino_tools.typical_roof_truss_generator", "/generate_truss")>>

test_tools_py ==
    <<Tool("rhino_tool", "test_echo", "test_tools.test_echo", "/test_echo"),
      Handler("/test_echo", "test_tools.handle_test_echo"),
      Tool("rhino_tool", "test_system_info", "test_tools.test_system_info",
           "/test_system_info"),
      Handler("/test_system_info", "test_tools.handle_test_system_info"),
      Tool("gh_tool", "test_gh_available", "test_tools.test_gh_available",
           "/test_gh_available"),
      Handler("/test_gh_available", "test_tools.handle_test_gh_available"),
      Tool("rhino_tool", "test_add_numbers", "test_tools.test_add_numbers",
           "/test_add_numbers"),
      Handler("/test_add_numbers", "test_tools.handle_test_add_numbers")>>

utility_tools_py ==
    <<Tool("utility_tool", "test_echo", "utility_tools.utility_echo", "/utility_echo"),
      Handler("/utility_echo", "utility_tools.handle_utility_echo"),
      Tool("utility_tool", "quantify_volume", "utility_tools.quantify_volume",
           "/quantify_volume"),
      Handler("/quantify_volume", "utility_tools.handle_quantify_volume")>>

\* The decorator applications in the body of a tool module.
Declarations(module_name) ==
    CASE module_name = "gh_tools" -> gh_tools_py
      [] module_name = "rhino_tools" -> rhino_tools_py
      [] module_name = "test_tools" -> test_tools_py
      [] module_name = "utility_tools" -> utility_tools_py
      [] OTHER -> <<>>

\* ToolDefinition(name, description, function, tool_type).
ToolDefinition(name, function, tool_type) ==
    [name |-> name, function |-> function, tool_type |-> tool_type]

\* The registries and sys.modules while discover_tools runs, with the modules
\* it printed "Discovered tools from" and "Warning: Could not import" for.
Registries(rhino, gh, handlers, modules, discovered, warned) ==
    [rhino |-> rhino, gh |-> gh, handlers |-> handlers, modules |-> modules,
     discovered |-> discovered, warned |-> warned]

\* The applications of one decorator among decls, in source order.
Applications(decls, decorator) ==
    SelectSeq(decls, LAMBDA d : d.decorator = decorator)

\* rhino_tool / gh_tool: each application appends a ToolDefinition to its list.
Appended(tools, applied, tool_type) ==
    tools \o [i \in 1..Len(applied) |->
                ToolDefinition(applied[i].name, applied[i].function, tool_type)]

\* bridge_handler: _bridge_handlers[endpoint] = func, the last application of
\* an endpoint replacing the earlier ones.
Assigned(handlers, applied) ==
    [e \in DOMAIN handlers \cup {applied[i].endpoint : i \in DOMAIN applied} |->
        IF \E i \in DOMAIN applied : applied[i].endpoint = e
        THEN applied[CHOOSE i \in DOMAIN applied :
                        /\ applied[i].endpoint = e
                        /\ \A j \in DOMAIN applied : applied[j].endpoint = e => j <= i].function
        ELSE handlers[e]]

\* The body of a module executed: its decorators run in source order.
ExecModule(decls, r) ==
    Registries(Appended(r.rhino, Applications(decls, "rhino_tool"), "rhino"),
               Appended(r.gh, Applications(decls, "gh_tool"), "grasshopper"),
               Assigned(r.handlers, Applications(decls, "bridge_handler")),
               r.modules, r.discovered, r.warned)

\* from tool_registry import ... raises ImportError for a name it does not define.
ImportRaises(module_name) == ~(ImportedNames(module_name) \subseteq RegistryDecorators)

\* The decorator applications the body of the module in filename makes: those
\* of the repository's module of that name, or the ones a file added to the
\* Tools directory carries.
ModuleBody(filename) ==
    IF "body" \in DOMAIN filename THEN filename.body ELSE Declarations(filename.name)

\* One iteration of the loop of discover_tools over the entry filename.
\* importlib.import_module returns a module of sys.modules without executing
\* it again; a module whose import raises is tried as Tools.<module_name>,
\* which raises again, and the warning is printed.
ImportFile(r, filename) ==
    IF filename.ext # ".py" \/ filename.name \in {"__init__", "tool_registry"} THEN r
    ELSE IF filename.name \in r.modules
    THEN Registries(r.rhino, r.gh, r.handlers, r.modules,
                    r.discovered \cup {filename.name}, r.warned)
    ELSE IF ImportRaises(filename.name)
    THEN Registries(r.rhino, r.gh, r.handlers, r.modules, r.discovered,
                    r.warned \cup {filename.name})
    ELSE ExecModule(ModuleBody(filename),
                    Registries(r.rhino, r.gh, r.handlers,
                               r.modules \cup {filename.name},
                               r.discovered \cup {filename.name}, r.warned))

RECURSIVE DiscoverLoop(_, _, _)
DiscoverLoop(listing, k, r) ==
    IF k > Len(listing) THEN r
    ELSE DiscoverLoop(listing, k + 1, ImportFile(r, listing[k]))

\* discover_tools has returned with r.
Discovered(r) ==
    /\ _rhino_tools' = r.rhino
    /\ _gh_tools' = r.gh
    /\ _bridge_handlers' = r.handlers
    /\ sys_modules' = r.modules
    /\ disc' = [done |-> TRUE, discovered |-> r.discovered, warned |-> r.warned]

\* The os.chdir calls of one iteration that began in original_cwd, without the
\* one of the finally clause (a variant the working-directory property must
\* tell from the code).
Chdirs_without_finally(filename, original_cwd) ==
    IF filename.ext # ".py" \/ filename.name \in {"__init__", "tool_registry"} THEN <<>>
    ELSE <<tools_dir>>
         \o (IF "body" \notin DOMAIN filename /\ ImportRaises(filename.name)
             THEN <<original_cwd>> ELSE <<>>)

\* The os.chdir calls of one iteration of the loop that began in original_cwd:
\* to tools_dir before the import, back when the import raised ImportError,
\* and back in the finally clause.
Chdirs(filename, original_cwd) ==
    IF filename.ext # ".py" \/ filename.name \in {"__init__", "tool_registry"} THEN <<>>
    ELSE <<tools_dir>>
         \o (IF "body" \notin DOMAIN filename /\ ImportRaises(filename.name)
             THEN <<original_cwd>> ELSE <<>>)
         \o <<original_cwd>>

\* The working directory after the iterations k.. of the loop, begun in dir.
RECURSIVE CwdLoop(_, _, _)
CwdLoop(listing, k, dir) ==
    IF k > Len(listing) THEN dir
    ELSE CwdLoop(listing, k + 1,
                 IF Chdirs(listing[k], dir) = <<>> THEN dir
                 ELSE Chdirs(listing[k], dir)[Len(Chdirs(listing[k], dir))])

\* discover_tools() with os.listdir returning listing: the registries are
\* cleared, then every entry of the listing is visited.
DiscoverIn(listing) ==
    /\ Discovered(DiscoverLoop(listing, 1,
                               Registries(<<>>, <<>>, <<>>, sys_modules, {}, {})))
    /\ cwd' = CwdLoop(listing, 1, cwd)
    /\ UNCHANGED <<hostVars, bridgeVars, call, prev, ghVars, listening, srvVars>>

\* tool_registry.discover_tools over the Tools directory of the repository.
discover_tools ==
    \E listing \in DirListings : DiscoverIn(listing)

\* A tool module added to the Tools directory ("discovery works with ANY .py
\* file"): its decorators register a name or an endpoint the repository's
\* modules register too, or a new one.
AddedDeclarations ==
    {Tool(decorator, name, "added_tools.added_tool", endpoint) :
        decorator \in {"rhino_tool", "gh_tool"},
        name \in {"test_echo", "list_grasshopper_sliders", "added_tool"},
        endpoint \in {"/test_echo", "/added_tool"}}
    \cup {Handler(endpoint, "added_tools.handle_added") :
            endpoint \in {"/test_echo", "/added_tool"}}

AddedModules ==
    {[name |-> "added_tools", ext |-> ".py", body |-> body] :
        body \in UNION {[1..n -> AddedDeclarations] : n \in 1..MaxAddedDeclarations}}

\* The listings of the Tools directory with the added file: the repository's
\* files in the order of their names and the added file at any place.
AddedListings(added) ==
    {SubSeq(<<File("gh_tools", ".py"), File("rhino_tools", ".py"), File("test_tools", ".py"),
              File("tool_registry", ".py"), File("utility_tools", ".py")>>, 1, k)
     \o <<added>>
     \o SubSeq(<<File("gh_tools", ".py"), File("rhino_tools", ".py"),
                 File("test_tools", ".py"), File("tool_registry", ".py"),
                 File("utility_tools", ".py")>>, k + 1, 5) : k \in 0..5}

\* main.register_tools with a module added to the Tools directory.
register_added_tools ==
    /\ ~disc.done
    /\ \E added \in AddedModules :
           \E listing \in AddedListings(added) : DiscoverIn(listing)

(* ------------------------------ tool calls ------------------------------ *)
\* The request_data a tool function builds from its arguments.
RequestData(def) ==
    CASE def = "rhino_tools.draw_line_rhino" ->
            [start_x |-> JNum(0), start_y |-> JNum(0), start_z |-> JNum(0),
             end_x |-> JNum(3), end_y |-> JNum(0), end_z |-> JNum(0)]
      [] def = "rhino_tools.typical_roof_truss_generator" ->
            [upper_line_start_x |-> JNum(0), upper_line_start_y |-> JNum(0),
             upper_line_start_z |-> JNum(0), upper_line_end_x |-> JNum(10),
             upper_line_end_y |-> JNum(0), upper_line_end_z |-> JNum(0),
             truss_depth |-> JNum(2), num_divisions |-> JNum(MaxDivisions),
             truss_type |-> JStr("Warren"), clear_previous |-> JBool(TRUE),
             truss_plane_direction |-> JStr("perpendicular")]
      [] def = "gh_tools.set_grasshopper_slider" ->
            [slider_name |-> JStr("Width"), new_value |-> JNum(5)]
      [] def = "gh_tools.set_multiple_grasshopper_sliders" ->
            [slider_updates |-> JStr("Width")]
      [] def = "gh_tools.set_grasshopper_valuelist_selection" ->
            [valuelist_name |-> JStr("Width"), selection |-> JStr("Width")]
      [] def = "gh_tools.set_grasshopper_panel_text" ->
            [panel_name |-> JStr("Width"), new_text |-> JStr("Width")]
      [] def = "gh_tools.get_grasshopper_panel_data" -> [panel_name |-> JStr("")]
      [] def = "gh_tools.set_grasshopper_geometry_input" ->
            [parameter_name |-> JStr("Width"), rhino_object_ids |-> JStr("")]
      [] def = "gh_tools.extract_grasshopper_geometry_output" ->
            [parameter_name |-> JStr("Width"), bake_to_rhino |-> JBool(FALSE),
             layer_name |-> JStr("")]
      [] def = "test_tools.test_echo" -> [message |-> JStr("Width")]
      [] def = "test_tools.test_add_numbers" -> [a |-> JNum(1), b |-> JNum(2)]
      [] OTHER -> EmptyObject

\* The POST request call_bridge_api(endpoint, data) sends with requests.post.
PostRequest(endpoint, data) ==
    [method |-> "POST", path |-> endpoint, query |-> FALSE, clen |-> "positive",
     body |-> Object(data)]

\* BRIDGE_URL with the default host and port.
BRIDGE_URL == "http://localhost:8080"

\* The classes an exception of the try block is an instance of: its class in
\* requests.exceptions (or json) and the bases of that class.
ExceptionClasses(cls) ==
    CASE cls = "ConnectionError" -> {"ConnectionError", "RequestException", "Exception"}
      [] cls = "ConnectTimeout" ->
            {"ConnectTimeout", "ConnectionError", "Timeout", "RequestException", "Exception"}
      [] cls = "ReadTimeout" -> {"ReadTimeout", "Timeout", "RequestException", "Exception"}
      [] cls = "HTTPError" -> {"HTTPError", "RequestException", "Exception"}
      [] cls = "requests.JSONDecodeError" ->
            {"requests.JSONDecodeError", "InvalidJSONError", "RequestException",
             "json.JSONDecodeError", "ValueError", "Exception"}
      [] cls = "json.JSONDecodeError" -> {"json.JSONDecodeError", "ValueError", "Exception"}
      [] OTHER -> {cls, "Exception"}

\* What becomes of one HTTP call: the response the bridge wrote is delivered,
\* or the call fails in the way kind names; decoder is the class response.json()
\* raises for a body that is no JSON (it depends on the requests version).
Transport(kind, response, decoder) ==
    [kind |-> kind, response |-> response, decoder |-> decoder]
Delivered(response) == Transport("delivered", response, None)

\* The exception the try block of call_bridge_api raises, None when it returns:
\* requests.post raises when no connection is made, when it is lost, or when no
\* answer arrives within the timeout of 10 seconds; raise_for_status raises for a
\* status of 400 and above; response.json() raises for a body that is no JSON.
TryRaises(transport) ==
    CASE transport.kind = "refused" -> "ConnectionError"
      [] transport.kind = "connect_timeout" -> "ConnectTimeout"
      [] transport.kind = "reset" -> "ConnectionError"
      [] transport.kind = "read_timeout" -> "ReadTimeout"
      [] transport.kind = "not_json" -> transport.decoder
      [] transport.kind = "delivered" /\ transport.response.http >= 400 -> "HTTPError"
      [] OTHER -> None

\* str(e) of the exception the try block raised.
ExceptionMessage(transport) ==
    IF transport.kind = "delivered" THEN transport.response.http ELSE transport.kind

\* One except clause: the class it names and the error string it returns,
\* with str(e) appended or not.
Except(class, prefix, with_message) ==
    [class |-> class, prefix |-> prefix, with_message |-> with_message]

\* The except clauses with the clause for Timeout first (a variant the
\* unreachable-bridge property must tell from the code).
ExceptClauses_Timeout_first ==
    <<Except("Timeout", <<"Request to Rhino Bridge Server timed out">>, FALSE),
      Except("ConnectionError",
             <<"Cannot connect to Rhino Bridge Server at ", BRIDGE_URL,
               ". Make sure the bridge server is running in Rhino.">>, FALSE),
      Except("RequestException", <<"Bridge API request failed: ">>, TRUE),
      Except("json.JSONDecodeError", <<"Invalid response from bridge server: ">>, TRUE)>>

\* The except clauses without the clause for RequestException (a variant the
\* transport-failure property must tell from the code).
ExceptClauses_without_RequestException ==
    <<Except("ConnectionError",
             <<"Cannot connect to Rhino Bridge Server at ", BRIDGE_URL,
               ". Make sure the bridge server is running in Rhino.">>, FALSE),
      Except("Timeout", <<"Request to Rhino Bridge Server timed out">>, FALSE),
      Except("json.JSONDecodeError", <<"Invalid response from bridge server: ">>, TRUE)>>

\* The except clauses of call_bridge_api in their order.
ExceptClauses ==
    <<Except("ConnectionError",
             <<"Cannot connect to Rhino Bridge Server at ", BRIDGE_URL,
               ". Make sure the bridge server is running in Rhino.">>, FALSE),
      Except("Timeout", <<"Request to Rhino Bridge Server timed out">>, FALSE),
      Except("RequestException", <<"Bridge API request failed: ">>, TRUE),
      Except("json.JSONDecodeError", <<"Invalid response from bridge server: ">>, TRUE)>>

\* The clauses that match an exception of class cls.
Matching(cls) ==
    {i \in DOMAIN ExceptClauses : ExceptClauses[i].class \in ExceptionClasses(cls)}

\* The dictionary the first matching except clause returns.
Caught(clause, transport) ==
    [success |-> FALSE,
     error |-> IF clause.with_message
               THEN Append(clause.prefix, ExceptionMessage(transport))
               ELSE clause.prefix]

\* bridge_client.call_bridge_api(endpoint, data): the dictionary of the
\* response, the dictionary of the first except clause that matches the
\* exception raised, or the exception itself when no clause matches it.
call_bridge_api(transport) ==
    IF TryRaises(transport) = None THEN transport.response.body
    ELSE IF Matching(TryRaises(transport)) = {}
    THEN [exception |-> TryRaises(transport)]
    ELSE Caught(ExceptClauses[CHOOSE i \in Matching(TryRaises(transport)) :
                                  \A j \in Matching(TryRaises(transport)) : i <= j],
                transport)

\* The tools discover_tools returned.
RegisteredTools ==
    {_rhino_tools[i] : i \in DOMAIN _rhino_tools} \cup {_gh_tools[i] : i \in DOMAIN _gh_tools}

\* The ways a call can fail: with no process listening the connection is
\* refused or not made in time; with the bridge listening the connection is
\* lost, no answer arrives in time, or the body that arrives is no JSON.
TransportFailures ==
    IF listening
    THEN {Transport("reset", [http |-> 200, body |-> EmptyObject], None),
          Transport("read_timeout", [http |-> 200, body |-> EmptyObject], None),
          Transport("not_json", [http |-> 200, body |-> EmptyObject],
                    "requests.JSONDecodeError"),
          Transport("not_json", [http |-> 200, body |-> EmptyObject],
                    "json.JSONDecodeError")}
    ELSE {Transport("refused", [http |-> 200, body |-> EmptyObject], None),
          Transport("connect_timeout", [http |-> 200, body |-> EmptyObject], None)}

\* A registered tool is called: its function posts request_data to its endpoint
\* and the bridge serves the request.
CallTool ==
    /\ ~last.handled
    /\ listening
    /\ \E tool \in RegisteredTools :
           \E fault \in FaultsFor(PostRequest(tool.function.endpoint,
                                              RequestData(tool.function.def))) :
               /\ last' = [handled |-> TRUE,
                           req |-> PostRequest(tool.function.endpoint,
                                               RequestData(tool.function.def)),
                           fault |-> fault,
                           out |-> Serve(PostRequest(tool.function.endpoint,
                                                     RequestData(tool.function.def)),
                                         fault, doc, nextId),
                           hostGh |-> hostGh, docActive |-> docActive]
               /\ last'.out.nextId <= MaxIds + 1
               /\ doc' = last'.out.doc
               /\ nextId' = last'.out.nextId
               /\ faults' = (faults \/ last'.out.exc # None)
               /\ call' = [made |-> TRUE, tool |-> tool,
                           http |-> last'.out.sent[1].http,
                           listening |-> listening,
                           transport |-> Delivered(last'.out.sent[1]),
                           result |-> call_bridge_api(Delivered(last'.out.sent[1]))]
               /\ UNCHANGED <<RHINO_AVAILABLE, GRASSHOPPER_AVAILABLE, hostGh, docActive,
                              regVars, prev, ghVars, listening, srvVars>>

\* A registered tool is called and its HTTP call fails; what the bridge does
\* with a request whose answer is lost is not followed.
CallToolFails ==
    /\ ~call.made
    /\ ~last.handled
    /\ \E tool \in RegisteredTools :
           \E transport \in TransportFailures :
               call' = [made |-> TRUE, tool |-> tool, http |-> transport.response.http,
                        listening |-> listening, transport |-> transport,
                        result |-> call_bridge_api(transport)]
    /\ UNCHANGED <<hostVars, bridgeVars, regVars, prev, ghVars, listening, srvVars>>

\* main.register_tools: the MCP server discovers the tools once, when it starts.
register_tools ==
    /\ ~disc.done
    /\ discover_tools

\* The tool function has returned its result and the connection is closed.
ToolReturned ==
    /\ call.made
    /\ call' = [made |-> FALSE]
    /\ last' = [handled |-> FALSE]
    /\ UNCHANGED <<hostVars, faults, regVars, prev, ghVars, listening, srvVars>>

\* The bridge is started in Rhino, or stopped.
BridgeStartStop ==
    /\ ~call.made
    /\ ~last.handled
    /\ listening' = ~listening
    /\ UNCHANGED <<hostVars, bridgeVars, regVars, call, prev, ghVars, srvVars>>

(* ------------------------ bridge server lifecycle ---------------------- *)
\* The requests the clients of the bridge send while it is started and stopped.
ServerRequests ==
    {PostRequest("/draw_line", RequestData("rhino_tools.draw_line_rhino")),
     [method |-> "GET", path |-> "/status", query |-> FALSE, clen |-> "absent",
      body |-> Object(EmptyObject)]}

Clients == 1..MaxClients

\* A client connects to the port and sends a request; the connection waits in
\* the listen queue of the socket until the server thread accepts it.
ClientSends ==
    /\ PortBound
    /\ \E c \in Clients :
           /\ \A k \in DOMAIN backlog : backlog[k].client # c
           /\ \A e \in executing : e.client # c
           /\ \E req \in ServerRequests :
                  backlog' = Append(backlog, [client |-> c, req |-> req])
    /\ UNCHANGED <<hostVars, bridgeVars, regVars, call, prev, ghVars, listening,
                   bridge_server, servers, executing, lifecycle>>

\* serve_forever of instance i accepts the next connection and its handler
\* begins; after shutdown() was asked it accepts no more.
HandlerStarts ==
    /\ backlog # <<>>
    /\ \E i \in DOMAIN servers :
           /\ servers[i].server = "open"
           /\ servers[i].thread
           /\ ~servers[i].shutdown
           /\ ServerThreadFree(i)
           /\ executing' = executing \cup
                    {[instance |-> i, client |-> Head(backlog).client,
                      req |-> Head(backlog).req]}
    /\ backlog' = Tail(backlog)
    /\ UNCHANGED <<hostVars, bridgeVars, regVars, call, prev, ghVars, listening,
                   bridge_server, servers, lifecycle>>

\* A handler runs to its end: the host document is changed and the response
\* is written.
HandlerReturns ==
    /\ \E e \in executing :
           \E fault \in FaultsFor(e.req) :
               /\ Serve(e.req, fault, doc, nextId).nextId <= MaxIds + 1
               /\ doc' = Serve(e.req, fault, doc, nextId).doc
               /\ nextId' = Serve(e.req, fault, doc, nextId).nextId
               /\ faults' = (faults \/ Serve(e.req, fault, doc, nextId).exc # None)
               /\ executing' = executing \ {e}
    /\ UNCHANGED <<RHINO_AVAILABLE, GRASSHOPPER_AVAILABLE, hostGh, docActive, last,
                   regVars, call, prev, ghVars, listening, bridge_server, servers,
                   backlog, lifecycle>>

\* Instances are numbered from 1 in the order of their creation; 0 stands for
\* None as the value of bridge_server.
\* start_bridge_server(): the running instance is returned, or a new instance
\* is created and started.
start_bridge_server ==
    /\ lifecycle.op # "stopping"
    /\ IF bridge_server # 0 /\ is_running(servers[bridge_server])
       THEN /\ lifecycle' = [op |-> "start", before |-> bridge_server, running |-> TRUE,
                             returned |-> bridge_server]
            /\ UNCHANGED <<bridge_server, servers, listening>>
       ELSE /\ Len(servers) < MaxServers
            /\ servers' = Append(servers, start)
            /\ bridge_server' = Len(servers) + 1
            /\ listening' = PortBound'
            /\ lifecycle' = [op |-> "start", before |-> bridge_server, running |-> FALSE,
                             returned |-> Len(servers) + 1]
    /\ UNCHANGED <<hostVars, bridgeVars, regVars, call, prev, ghVars, backlog, executing>>

\* stop_bridge_server() is called: without an instance, or with one that has
\* no server, it returns at once; else stop() calls shutdown(), which waits
\* for serve_forever to leave its loop.
stop_bridge_server ==
    /\ lifecycle.op # "stopping"
    /\ IF bridge_server = 0
       THEN /\ lifecycle' = [op |-> "stop", before |-> 0, returned |-> 0]
            /\ UNCHANGED <<bridge_server, servers>>
       ELSE IF servers[bridge_server].server = None
       THEN /\ lifecycle' = [op |-> "stop", before |-> bridge_server, returned |-> 0]
            /\ bridge_server' = 0
            /\ UNCHANGED servers
       ELSE /\ lifecycle' = [op |-> "stopping", before |-> bridge_server,
                             returned |-> 0]
            /\ servers' = [servers EXCEPT ![bridge_server].shutdown = TRUE]
            /\ UNCHANGED bridge_server
    /\ UNCHANGED <<hostVars, bridgeVars, regVars, call, prev, ghVars, listening, backlog,
                   executing>>

\* serve_forever has left its loop, the handler of the request it was serving
\* returned: shutdown() returns, server_close() closes the socket (the
\* connections waiting on it are dropped) and bridge_server is set to None.
stop_returns ==
    /\ lifecycle.op = "stopping"
    /\ ServerThreadFree(bridge_server)
    /\ servers' = [servers EXCEPT ![bridge_server] =
                        RhinoBridgeServer("closed", FALSE, TRUE)]
    /\ bridge_server' = 0
    /\ backlog' = <<>>
    /\ listening' = PortBound'
    /\ lifecycle' = [op |-> "stop", before |-> bridge_server, returned |-> 0]
    /\ UNCHANGED <<hostVars, bridgeVars, regVars, call, prev, ghVars, executing>>

(* --------------------------- truss generation -------------------------- *)
\* Largest num_divisions of the generate_truss requests of the truss runs.
MaxTrussDivisions == 4
\* The rs.AddLine call of a request (1..MaxTrussFaultAt) that a host fault hits
\* in the truss runs.
MaxTrussFaultAt == 6
\* The generate_truss requests served on one document before it is closed.
MaxRequestsPerDocument == 2

\* Upper chords as <<start, end>>: along the x axis, skew in space, and along
\* the z axis (the axis of the depth offset).
Chords ==
    {<<<<0, 0, 0>>, <<12, 0, 0>>>>, <<<<1, 2, 3>>, <<13, -4, 9>>>>,
     <<<<0, 0, 0>>, <<0, 0, 2>>>>}

\* The request_data of typical_roof_truss_generator.
TrussData(chord, depth, n, truss_type, clear_previous) ==
    [upper_line_start_x |-> JNum(chord[1][1]), upper_line_start_y |-> JNum(chord[1][2]),
     upper_line_start_z |-> JNum(chord[1][3]), upper_line_end_x |-> JNum(chord[2][1]),
     upper_line_end_y |-> JNum(chord[2][2]), upper_line_end_z |-> JNum(chord[2][3]),
     truss_depth |-> JNum(depth), num_divisions |-> JNum(n),
     truss_type |-> JStr(truss_type), clear_previous |-> JBool(clear_previous),
     truss_plane_direction |-> JStr("perpendicular")]

\* The generate_truss requests that exercise the generator: every chord, every
\* number of divisions, the six topologies, one in upper case, one unknown.
GeometryRequests ==
    {PostRequest("/generate_truss", TrussData(c, 2, n, t, TRUE)) :
        c \in Chords, n \in (1..MaxTrussDivisions) \cup {0, -1},
        t \in {"Pratt", "PRATT", "Warren", "Vierendeel", "Howe", "Brown", "Onedir", "Fink"}}

\* The generate_truss requests that follow one another on a document.
TrussRequests ==
    {PostRequest("/generate_truss", TrussData(c, 2, n, t, clear)) :
        c \in {<<<<0, 0, 0>>, <<12, 0, 0>>>>}, n \in 1..2, t \in {"Pratt", "Brown", "Warren"}, clear \in BOOLEAN}

\* Host faults of the truss runs.
TrussFaults ==
    {NoFault, [kind |-> "allnone", at |-> 1]}
    \cup [kind : {"none", "raise"}, at : 1..MaxTrussFaultAt]

\* The documents a user hands to the generator: a new one, or one that holds a
\* curve the user drew (no user text on it).
UserDocuments == {<<>>, <<NewLine(1, Pt(0, 0, 0), Pt(5, 5, 0))>>}

\* The bridge runs in a host with Rhino available and a user's document open.
InitTruss ==
    /\ RHINO_AVAILABLE = TRUE
    /\ hostGh = TRUE
    /\ GRASSHOPPER_AVAILABLE = hostGh
    /\ docActive = TRUE
    /\ doc \in UserDocuments
    /\ nextId = Len(doc) + 1
    /\ last = [handled |-> FALSE]
    /\ faults = FALSE
    /\ _rhino_tools = <<>>
    /\ _gh_tools = <<>>
    /\ _bridge_handlers = <<>>
    /\ sys_modules = {}
    /\ disc = [done |-> FALSE]
    /\ cwd = LaunchDir
    /\ call = [made |-> FALSE]
    /\ prev = [handled |-> FALSE]
    /\ gh_host = GrasshopperHost
    /\ batch = [made |-> FALSE]
    /\ single = [made |-> FALSE]
    /\ listening = TRUE
    /\ bridge_server = 1
    /\ servers = <<RunningServer>>
    /\ backlog = <<>>
    /\ executing = {}
    /\ lifecycle = [op |-> "start", before |-> 0, running |-> FALSE, returned |-> 1]

\* The requests served so far on the open document.
Round == IF last.handled THEN last.round ELSE 0

\* The server thread takes one generate_truss request and runs do_POST and
\* handle_generate_truss to the end; the document before it is remembered.
ServeTruss(req, fault) ==
    /\ last' = [handled |-> TRUE, req |-> req, fault |-> fault,
                out |-> Serve(req, fault, doc, nextId),
                hostGh |-> hostGh, docActive |-> docActive,
                before |-> [doc |-> doc, nextId |-> nextId], round |-> Round + 1]
    /\ prev' = last
    /\ doc' = last'.out.doc
    /\ nextId' = last'.out.nextId
    /\ faults' = (faults \/ last'.out.exc # None)
    /\ UNCHANGED <<RHINO_AVAILABLE, GRASSHOPPER_AVAILABLE, hostGh, docActive, regVars,
                   call, ghVars, listening, srvVars>>

\* A generate_truss request on a document no truss was generated in.
GeometryRequest ==
    /\ ~last.handled
    /\ \E req \in GeometryRequests : \E fault \in TrussFaults : ServeTruss(req, fault)

\* A generate_truss request on the open document, after another or not; a host
\* fault here is an rs.AddLine call that raises.
TrussRequest ==
    /\ Round < MaxRequestsPerDocument
    /\ \E req \in TrussRequests :
           \E fault \in {f \in TrussFaults : f.kind \in {"ok", "raise"}} :
               ServeTruss(req, fault)

\* The user closes the document and opens another.
NewDocument ==
    /\ last.handled
    /\ last' = [handled |-> FALSE]
    /\ prev' = [handled |-> FALSE]
    /\ doc' \in UserDocuments
    /\ nextId' = Len(doc') + 1
    /\ UNCHANGED <<RHINO_AVAILABLE, GRASSHOPPER_AVAILABLE, hostGh, docActive, faults,
                   regVars, call, ghVars, listening, srvVars>>

(* --------------------------- Grasshopper host -------------------------- *)
\* The user closes or opens the Grasshopper canvas, the plug-in is unloaded
\* or loaded, or another definition is opened, between two calls.
CanvasChange ==
    /\ ~batch.made
    /\ ~single.made
    /\ \/ gh_host' = [gh_host EXCEPT !.canvas = ~gh_host.canvas]
       \/ gh_host' = [gh_host EXCEPT !.plugin = ~gh_host.plugin]
       \/ \E sliders \in GrasshopperDocuments :
              /\ NameCounts(sliders) # NameCounts(gh_host.sliders)
              /\ gh_host' = [gh_host EXCEPT !.sliders = sliders]
    /\ UNCHANGED <<hostVars, bridgeVars, regVars, call, prev, batch, single, listening,
                   srvVars>>

\* gh_tools.handle_set_slider is called with the body of a set_slider request
\* and runs to its return.
SetSlider ==
    /\ ~batch.made
    /\ ~single.made
    /\ \E data \in SliderBodies :
           \E fault \in SliderFaults :
               /\ single' = [made |-> TRUE, data |-> data, fault |-> fault,
                             before |-> gh_host, importable |-> hostGh,
                             out |-> gh_tools_handle_set_slider(data, fault, gh_host, hostGh)]
               /\ gh_host' = single'.out.host
    /\ UNCHANGED <<hostVars, bridgeVars, regVars, call, prev, batch, listening, srvVars>>

\* The dictionary handle_set_slider returned has been handed to its caller.
SliderReturned ==
    /\ single.made
    /\ single' = [made |-> FALSE]
    /\ UNCHANGED <<hostVars, bridgeVars, regVars, call, prev, gh_host, batch, listening,
                   srvVars>>

\* gh_tools.handle_set_multiple_sliders is called with the body of a
\* set_multiple_sliders request and runs to its return.
SetMultipleSliders ==
    /\ ~batch.made
    /\ ~single.made
    /\ \E data \in BatchBodies :
           \E fault \in BatchFaults(data) :
               /\ batch' = [made |-> TRUE, data |-> data, fault |-> fault,
                            before |-> gh_host, importable |-> hostGh,
                            out |-> handle_set_multiple_sliders(data, fault, gh_host, hostGh)]
               /\ gh_host' = batch'.out.host
    /\ UNCHANGED <<hostVars, bridgeVars, regVars, call, prev, single, listening, srvVars>>

\* The dictionary the handler returned has been handed to its caller; the
\* host is free for the next call.
BatchReturned ==
    /\ batch.made
    /\ batch' = [made |-> FALSE]
    /\ UNCHANGED <<hostVars, bridgeVars, regVars, call, prev, gh_host, single, listening,
                   srvVars>>

Next == EnvChange \/ BridgeRequest \/ ConnectionClosed

Spec == Init /\ [][Next]_vars

\* The MCP server process discovers the tools and calls them while the bridge
\* runs in the host.
NextDiscover == discover_tools \/ CallTool \/ ConnectionClosed

SpecDiscover == Init /\ [][NextDiscover]_vars

\* The MCP server process calls the tools over HTTP one call at a time, the
\* bridge running or not.
NextClient ==
    \/ register_tools
    \/ (~call.made /\ CallTool)
    \/ CallToolFails
    \/ ToolReturned
    \/ BridgeStartStop

SpecClient == Init /\ [][NextClient]_vars

\* The bridge is started and stopped in Rhino while clients send requests.
NextServer ==
    \/ ClientSends
    \/ HandlerStarts
    \/ HandlerReturns
    \/ start_bridge_server
    \/ stop_bridge_server
    \/ stop_returns

SpecServer == Init /\ [][NextServer]_vars

\* Discovery over a Tools directory that holds one more module.
NextRegistry == register_added_tools

SpecRegistry == Init /\ [][NextRegistry]_vars

\* The truss generator applied to one request per document.
NextGeometry == GeometryRequest \/ NewDocument

SpecGeometry == InitTruss /\ [][NextGeometry]_vars

\* generate_truss requests following one another on a document.
NextTruss == TrussRequest \/ NewDocument

SpecTruss == InitTruss /\ [][NextTruss]_vars

\* The Grasshopper handlers of gh_tools run in the host.
NextSliders ==
    \/ CanvasChange
    \/ SetMultipleSliders
    \/ BatchReturned
    \/ SetSlider
    \/ SliderReturned

SpecSliders == Init /\ [][NextSliders]_vars

(* ------------------------ properties of the bridge --------------------- *)
\* The one response of the request last served, and its JSON body.
Response == last.out.sent[1]
Body == last.out.sent[1].body

AnsweredOnce == Len(last.out.sent) = 1

IsPost == last.req.method = "POST"

\* The POST request carried a non-empty body that is no JSON text.
BodyUnparsable ==
    /\ IsPost
    /\ last.req.clen = "positive"
    /\ last.req.body.kind \in {"badutf8", "badjson"}

\* The request's path is none the bridge serves for the request's method.
PathUnserved ==
    IF IsPost THEN last.req.path \notin RoutedPosts ELSE last.req.path \notin GetPaths

ErrorBody(status_code) ==
    /\ AnsweredOnce
    /\ Response.http = status_code
    /\ Body.success = FALSE
    /\ "error" \in DOMAIN Body
    /\ Body.status_code = status_code

\* C1: every POST request, to any path, whose non-empty body fails to parse as
\* JSON is answered HTTP 400 with success=false and status_code=400, and never
\* HTTP 500.
C1_UnparsableBodyAnswered400 ==
    (last.handled /\ BodyUnparsable) => ErrorBody(400)

\* A body of text that is no JSON is answered 400, on a routed path too.
C1_BadJsonAnswered400 ==
    /\ last.handled
    /\ BodyUnparsable
    /\ last.req.path = "/draw_line"
    /\ ErrorBody(400)

BodyReadable ==
    \/ ~IsPost
    \/ last.req.clen = "absent"
    \/ last.req.clen = "positive" /\ ~BodyUnparsable

C3_HandlerExceptionAnswered500 ==
    last.handled =>
        /\ last.out.exc # None =>
                /\ ErrorBody(500)
                /\ Body.error[2] = last.out.exc
                /\ last.out.caught = None
        /\ faults => AnsweredOnce

\* After a handler raised, a later request was dispatched and answered 200.
C3_AnsweredAfterHandlerException ==
    /\ faults
    /\ last.handled
    /\ last.out.exc = None
    /\ last.out.handlers # <<>>
    /\ AnsweredOnce
    /\ Response.http = 200

\* The four paths a request may follow, with the status each ends in.
FourPaths ==
    {<<<<"Received", "Routed", "Executed", "Responded">>, 200>>,
     <<<<"Received", "RoutedFailed", "Responded">>, 404>>,
     <<<<"Received", "BodyParseFailed", "Responded">>, 400>>,
     <<<<"Received", "Routed", "HandlerException", "Responded">>, 500>>}

\* C4: every request is answered exactly once and follows exactly one of the
\* four paths Executed (200), Routed-Failed (404), Body-Parse-Failed (400),
\* Handler-Exception (500); no handler is invoked for a request whose body
\* failed to parse or whose path is not routed.
C4_OneOfFourPaths ==
    last.handled =>
        /\ AnsweredOnce
        /\ <<last.out.steps, Response.http>> \in FourPaths
        /\ (BodyUnparsable \/ PathUnserved) => last.out.handlers = <<>>

\* A request whose handler raised followed the Handler-Exception path.
C4_HandlerExceptionPath ==
    /\ last.handled
    /\ last.out.steps = <<"Received", "Routed", "HandlerException", "Responded">>
    /\ Response.http = 500

\* C8: a handler that ran and failed logically is answered HTTP 200 with
\* success=false; a status other than 200 is produced only for an unknown path
\* (404), an unparsable body (400) or an exception raised inside a handler (500).
C8_NonSuccessStatusOnlyForProtocolErrors ==
    last.handled =>
        /\ (last.out.handlers # <<>> /\ last.out.exc = None) =>
                (Response.http = 200 /\ "success" \in DOMAIN Body)
        /\ Response.http # 200 =>
                \/ Response.http = 404 /\ PathUnserved
                \/ Response.http = 400 /\ BodyUnparsable
                \/ Response.http = 500 /\ last.out.handlers # <<>> /\ last.out.exc # None

\* A handler ran, failed logically and was answered 200 with success=false.
C8_LogicalFailureAnswered200 ==
    /\ last.handled
    /\ last.out.handlers = <<"RhinoBridgeHandler.handle_set_slider">>
    /\ last.out.exc = None
    /\ Response.http = 200
    /\ Body.success = FALSE
    /\ Body.error[1] = "Slider not found"

\* C9: the capability flags are recomputed on every request: GET /status and
\* the availability check of a handler reflect the host at that request.
C9_FlagsReflectHostAtRequest ==
    last.handled =>
        /\ (~IsPost /\ Response.http = 200 /\ last.req.path = "/status") =>
                Body.grasshopper_available = last.hostGh
        /\ (last.out.handlers = <<"RhinoBridgeHandler.handle_list_sliders">>) =>
                (Body.success <=> last.hostGh)

\* GET /status reported the parametric subsystem as it was at that request.
C9_StatusServed ==
    /\ last.handled
    /\ ~IsPost
    /\ last.req.path = "/status"
    /\ Response.http = 200
    /\ Body.grasshopper_available = last.hostGh

\* The checks a handler made before it called a document API of the host.
Probed(check) == \E i \in DOMAIN last.out.probes : last.out.probes[i] = check

\* C10: a handler touches document objects only after it checked, on that
\* call, that the subsystem is reachable and that an active document exists;
\* when either check fails nothing of the document is read or changed.
C10_TouchOnlyAfterBothProbes ==
    (last.handled /\ last.out.touched) =>
        /\ Probed("RHINO_AVAILABLE") \/ Probed("GRASSHOPPER_AVAILABLE")
        /\ Probed("ActiveDocument")
        /\ last.docActive

\* A handler called a document API of the host with a document open.
C10_TouchedWithDocument ==
    /\ last.handled
    /\ last.out.touched
    /\ last.docActive
    /\ last.out.doc # <<>>

(* --------------------- properties of the tool registry ----------------- *)
\* C5: a POST path is dispatched to a handler exactly when it is a key of the
\* handler registry populated by bridge_handler, and the handler executed is
\* the one registered for that path.
C5_DispatchedExactlyWhenRegistered ==
    (disc.done /\ call.made /\ last.handled /\ IsPost /\ BodyReadable) =>
        /\ last.out.handlers # <<>> <=> last.req.path \in DOMAIN _bridge_handlers
        /\ (last.out.handlers # <<>> /\ last.req.path \in DOMAIN _bridge_handlers) =>
                last.out.handlers[1] = _bridge_handlers[last.req.path]

\* C6: with the bridge running, no call of a tool registered by
\* discover_tools() is answered HTTP 404.
C6_NoRegisteredToolAnswered404 ==
    call.made => call.http # 404

\* A registered tool was called and the bridge dispatched its request.
C6_RegisteredToolDispatched ==
    /\ call.made
    /\ call.tool.name = "draw_line_rhino"
    /\ call.http = 200
    /\ last.out.handlers = <<"RhinoBridgeHandler.handle_draw_line">>

\* The modules of the Tools directory discover_tools is to load.
ToolModules ==
    {f.name : f \in {g \in ToolFiles :
                        g.ext = ".py" /\ g.name \notin {"__init__", "tool_registry"}}}

\* The tool or bridge handler of a decorator application is in the registries.
Registered(decl) ==
    IF decl.decorator = "bridge_handler"
    THEN /\ decl.endpoint \in DOMAIN _bridge_handlers
         /\ _bridge_handlers[decl.endpoint] = decl.function
    ELSE \E t \in RegisteredTools : t.name = decl.name /\ t.function = decl.function

AllRegistered(module_name) ==
    \A i \in DOMAIN Declarations(module_name) : Registered(Declarations(module_name)[i])

\* C7: after discover_tools(), every .py module of the Tools directory other
\* than tool_registry.py and __init__.py has been loaded, and every tool and
\* bridge handler it declares by decorator is in the registries.
C7_EveryModuleLoadedAndRegistered ==
    disc.done =>
        \A m \in ToolModules : m \in sys_modules /\ AllRegistered(m)

\* discover_tools() loaded gh_tools and registered what it declares.
C7_GhToolsLoadedAndRegistered ==
    /\ disc.done
    /\ "gh_tools" \in sys_modules
    /\ AllRegistered("gh_tools")

(* ------------------- properties of the batch slider update ------------- *)
\* The call reached the batch loop: gh.DisableSolver() was called.
ReachedBatchLoop == batch.made /\ batch.out.log # <<>>

\* The number of calls of name among the solver calls of the last batch.
Calls(name) == Cardinality({i \in DOMAIN batch.out.log : batch.out.log[i] = name})

\* C11: in every set_multiple_sliders call that reaches the batch loop the
\* solver is disabled once, before anything else, and re-enabled exactly once
\* before the handler returns, whether every item succeeds, an item is not
\* found, an item raises or the recompute after the loop raises; and the solver
\* is never left disabled when the handler returns.
C11_SolverDisabledOnceEnabledOnce ==
    ReachedBatchLoop =>
        /\ batch.out.log[1] = "DisableSolver"
        /\ Calls("DisableSolver") = 1
        /\ Calls("EnableSolver") = 1
        /\ gh_host.solver

\* A batch in which an item was not found re-enabled the solver once.
C11_EnabledOnceAfterFailedItem ==
    /\ ReachedBatchLoop
    /\ batch.out.response.success
    /\ batch.out.response.failed_updates >= 1
    /\ Calls("EnableSolver") = 1
    /\ gh_host.solver

\* The batch {A: 5, B: 999} met a canvas whose slider A has the bounds [0, 10]
\* and that holds no slider B, and no host call raised.
BatchA5B999 ==
    /\ ReachedBatchLoop
    /\ batch.fault.kind = "ok"
    /\ batch.data.slider_updates.items =
            <<[name |-> "A", value |-> JNum(5)], [name |-> "B", value |-> JNum(999)]>>
    /\ \E i \in DOMAIN batch.before.sliders :
            /\ batch.before.sliders[i].NickName = "A"
            /\ batch.before.sliders[i].Minimum = Num(0)
            /\ batch.before.sliders[i].Maximum = Num(10)
    /\ \A i \in DOMAIN batch.before.sliders : batch.before.sliders[i].NickName # "B"

\* The parts of the answer to {A: 5, B: 999} other than the value reported for A.
BatchA5B999Reported ==
    /\ batch.out.response.success
    /\ Len(batch.out.response.results) = 2
    /\ batch.out.response.results[1].slider_name = "A"
    /\ batch.out.response.results[1].success
    /\ batch.out.response.results[2].slider_name = "B"
    /\ ~batch.out.response.results[2].success
    /\ batch.out.response.results[2].error = <<"Slider '", "B", "' not found">>
    /\ batch.out.response.failed_updates = 1

\* C12 as stated: the batch {A: 5, B: 999}, slider A with bounds [0, 10] and no
\* slider B, reports A as succeeded with a clamped value of 10 and B as failed
\* with a 'not found' error; success is true and failed_updates is 1.
C12_BatchReportsAClampedTo10 ==
    BatchA5B999 =>
        /\ BatchA5B999Reported
        /\ batch.out.response.results[1].new_value = Num(10)

\* C12: the batch {A: 5, B: 999}, slider A with bounds [0, 10] and no slider B,
\* reports A as succeeded with the value 5, which lies within the bounds and is
\* not clamped, and B as failed with a 'not found' error; success is true and
\* failed_updates is 1. A value is clamped to 10 only when it exceeds 10: every
\* value reported for a slider that was set is max(Minimum, min(Maximum, value)).
C12_BatchReportsAUnclampedAt5 ==
    /\ BatchA5B999 =>
            /\ BatchA5B999Reported
            /\ batch.out.response.results[1].new_value = Num(5)
            /\ ~batch.out.response.results[1].clamped
            /\ \E i \in DOMAIN gh_host.sliders :
                    gh_host.sliders[i].NickName = "A" /\ gh_host.sliders[i].Value = Num(5)
    /\ (ReachedBatchLoop /\ batch.out.response.success) =>
            \A k \in DOMAIN batch.out.response.results :
                (/\ batch.out.response.results[k].success
                 /\ batch.out.response.results[k].slider_name = "A") =>
                    LET v == batch.data.slider_updates.items[k].value.v
                    IN  /\ batch.out.response.results[k].new_value =
                                (IF v[1] > 10 * v[2] THEN Num(10)
                                 ELSE IF v[1] < 0 THEN Num(0) ELSE v)
                        /\ batch.out.response.results[k].clamped <=>
                                (v[1] > 10 * v[2] \/ v[1] < 0)

\* The batch {A: 5, B: 999} was answered.
C12_BatchA5B999Answered ==
    /\ BatchA5B999
    /\ BatchA5B999Reported

(* --------------------- properties of the truss generator --------------- *)
\* The request last served is a generate_truss request that reached the
\* generator with divisions >= 1.
TrussInput == last.req.body.data
Divisions == IntOf(TrussInput.num_divisions.v)
TrussServed ==
    /\ last.handled
    /\ "before" \in DOMAIN last
    /\ last.req.path = "/generate_truss"
    /\ Divisions >= 1

\* Every rs.AddLine call of the request returned a line id.
EveryLineCreated == last.fault.kind = "ok"

\* The upper chord, the depth and the topology the request was sent with.
ChordStart ==
    <<TrussInput.upper_line_start_x.v[1], TrussInput.upper_line_start_y.v[1],
      TrussInput.upper_line_start_z.v[1]>>
ChordEnd ==
    <<TrussInput.upper_line_end_x.v[1], TrussInput.upper_line_end_y.v[1],
      TrussInput.upper_line_end_z.v[1]>>
Depth == TrussInput.truss_depth.v[1]
Topology == Lower(TrussInput.truss_type.s)

\* p is P(i) + (0, 0, -dz) with P(i) = start + (i / divisions) * (end - start):
\* the fraction n/d of each coordinate, compared by cross-multiplication.
IsDivisionPoint(p, i, dz) ==
    \A k \in 1..3 :
        p[k][1] * Divisions =
            p[k][2] * (ChordStart[k] * Divisions + i * (ChordEnd[k] - ChordStart[k])
                       - (IF k = 3 THEN dz * Divisions ELSE 0))
IsTop(p, i) == IsDivisionPoint(p, i, 0)
IsBottom(p, i) == IsDivisionPoint(p, i, Depth)

\* The members of one type the response reports, in its order.
MembersOfType(type) == SelectSeq(Body.truss_members, LAMBDA m : m.type = type)

\* C13: for every topology and every divisions >= 1, when every line creation
\* succeeds, the generator emits exactly `divisions` top-chord members, the i-th
\* from P(i) to P(i+1) with P(i) = start + (i/divisions)*(end - start), and
\* exactly `divisions` bottom-chord members, the i-th from P(i)+(0,0,-depth) to
\* P(i+1)+(0,0,-depth), whatever the orientation of the upper chord.
C13_ChordsInterpolated ==
    (TrussServed /\ EveryLineCreated) =>
        /\ Body.success
        /\ Len(MembersOfType("top_chord")) = Divisions
        /\ Len(MembersOfType("bottom_chord")) = Divisions
        /\ \A i \in 0..(Divisions - 1) :
                /\ IsTop(MembersOfType("top_chord")[i + 1].start, i)
                /\ IsTop(MembersOfType("top_chord")[i + 1].end, i + 1)
                /\ IsBottom(MembersOfType("bottom_chord")[i + 1].start, i)
                /\ IsBottom(MembersOfType("bottom_chord")[i + 1].end, i + 1)

\* A truss of four divisions was generated on the chord that is skew in space.
C13_SkewChordOfFourDivisions ==
    /\ TrussServed
    /\ EveryLineCreated
    /\ Divisions = 4
    /\ ChordStart = <<1, 2, 3>>
    /\ Len(MembersOfType("bottom_chord")) = 4
    /\ MembersOfType("bottom_chord")[2].start = <<Num(4), <<1, 2>>, <<5, 2>>>>

\* C14: for every divisions >= 1, when every line creation succeeds, the web
\* members are: Vierendeel divisions+1 verticals and no diagonal; Pratt and Howe
\* divisions+1 verticals and divisions diagonals; Brown divisions+1 verticals
\* and 2*divisions diagonals; Warren and Onedir no vertical and divisions
\* diagonals.
C14_WebMemberCounts ==
    (TrussServed /\ EveryLineCreated) =>
        /\ Body.success
        /\ Topology = "vierendeel" =>
                /\ Len(MembersOfType("vertical")) = Divisions + 1
                /\ Len(MembersOfType("diagonal")) = 0
        /\ Topology \in {"pratt", "howe"} =>
                /\ Len(MembersOfType("vertical")) = Divisions + 1
                /\ Len(MembersOfType("diagonal")) = Divisions
        /\ Topology = "brown" =>
                /\ Len(MembersOfType("vertical")) = Divisions + 1
                /\ Len(MembersOfType("diagonal")) = 2 * Divisions
        /\ Topology \in {"warren", "onedir"} =>
                /\ Len(MembersOfType("vertical")) = 0
                /\ Len(MembersOfType("diagonal")) = Divisions
        /\ Body.num_members =
                2 * Divisions + Len(MembersOfType("vertical"))
                + Len(MembersOfType("diagonal"))

\* A Brown truss of four divisions was generated: 5 verticals, 8 diagonals.
C14_BrownOfFourDivisions ==
    /\ TrussServed
    /\ EveryLineCreated
    /\ Divisions = 4
    /\ Topology = "brown"
    /\ Len(MembersOfType("vertical")) = 5
    /\ Len(MembersOfType("diagonal")) = 8
    /\ Len(MembersOfType("top_chord")) = 4

\* The member runs from bottom point i to top point i+1.
RisesInBay(m, i) == IsBottom(m.start, i) /\ IsTop(m.end, i + 1)
\* The member runs from top point i to bottom point i+1.
FallsInBay(m, i) == IsTop(m.start, i) /\ IsBottom(m.end, i + 1)

\* C15: in bay i (0-based) the diagonal runs, for Pratt and Warren, from bottom
\* point i to top point i+1 when i is even and from top point i to bottom point
\* i+1 when i is odd; for Howe the mirror image; for Onedir from bottom i to
\* top i+1 in every bay; for Brown both diagonals in every bay; every vertical
\* joins top point i to bottom point i; and the start and end reported for a
\* member are the endpoints of the line created for it.
C15_DiagonalDirections ==
    (TrussServed /\ EveryLineCreated) =>
        /\ Body.success
        /\ Topology \in {"pratt", "warren"} =>
                \A i \in 0..(Divisions - 1) :
                    IF i % 2 = 0 THEN RisesInBay(MembersOfType("diagonal")[i + 1], i)
                    ELSE FallsInBay(MembersOfType("diagonal")[i + 1], i)
        /\ Topology = "howe" =>
                \A i \in 0..(Divisions - 1) :
                    IF i % 2 = 0 THEN FallsInBay(MembersOfType("diagonal")[i + 1], i)
                    ELSE RisesInBay(MembersOfType("diagonal")[i + 1], i)
        /\ Topology = "onedir" =>
                \A i \in 0..(Divisions - 1) :
                    RisesInBay(MembersOfType("diagonal")[i + 1], i)
        /\ Topology = "brown" =>
                \A i \in 0..(Divisions - 1) :
                    /\ RisesInBay(MembersOfType("diagonal")[2 * i + 1], i)
                    /\ FallsInBay(MembersOfType("diagonal")[2 * i + 2], i)
        /\ \A j \in DOMAIN MembersOfType("vertical") :
                /\ IsTop(MembersOfType("vertical")[j].start, j - 1)
                /\ IsBottom(MembersOfType("vertical")[j].end, j - 1)
        /\ \A j \in DOMAIN Body.truss_members :
                \E k \in DOMAIN doc :
                    /\ doc[k].id = Body.truss_members[j].id
                    /\ doc[k].start = Body.truss_members[j].start
                    /\ doc[k].end = Body.truss_members[j].end

\* A Howe truss of three divisions or more was generated, its second diagonal
\* rising from bottom point 1 to top point 2.
C15_HoweSecondDiagonalRises ==
    /\ TrussServed
    /\ EveryLineCreated
    /\ Topology = "howe"
    /\ Divisions >= 3
    /\ RisesInBay(MembersOfType("diagonal")[2], 1)
    /\ FallsInBay(MembersOfType("diagonal")[3], 2)

\* The six topology names of the generator's branches.
KnownTopologies == {"pratt", "warren", "vierendeel", "howe", "brown", "onedir"}

\* What the generator does for the same inputs, host and document when the
\* topology is Pratt.
PrattOutput ==
    create_truss_geometry(
        <<TrussInput.upper_line_start_x.v, TrussInput.upper_line_start_y.v,
          TrussInput.upper_line_start_z.v>>,
        <<TrussInput.upper_line_end_x.v, TrussInput.upper_line_end_y.v,
          TrussInput.upper_line_end_z.v>>,
        TrussInput.truss_depth.v, Divisions, JStr("Pratt"), last.fault,
        IF Truthy(TrussInput.clear_previous)
        THEN clear_previous_trusses(last.before.doc) ELSE last.before.doc,
        last.before.nextId)

\* C16: for every topology name that is none of the six known names, compared
\* case-insensitively, the generator's output is identical, member for member
\* and line for line, to its output for Pratt with the same inputs.
C16_UnknownTopologyAsPratt ==
    (TrussServed /\ Topology \notin KnownTopologies) =>
        /\ Body.truss_members = PrattOutput.truss_members
        /\ doc = PrattOutput.doc

\* A truss was generated for the unknown topology "Fink": it has verticals.
C16_FinkGenerated ==
    /\ TrussServed
    /\ EveryLineCreated
    /\ TrussInput.truss_type.s = "Fink"
    /\ Body.success
    /\ Len(MembersOfType("vertical")) = Divisions + 1
    /\ Len(MembersOfType("diagonal")) = Divisions

(* ----------------- properties of the generated document ---------------- *)
\* The request last served is a generate_truss request.
TrussRequested ==
    /\ last.handled
    /\ "before" \in DOMAIN last
    /\ last.req.path = "/generate_truss"

\* The objects of a document that carry the truss tag, and those that do not.
Tagged(d) == SelectSeq(d, LAMBDA o : o.object_type = "truss_member")
Untagged(d) == SelectSeq(d, LAMBDA o : o.object_type # "truss_member")

\* C17: every line the generator creates is tagged object_type=truss_member
\* with the member_type reported for it, and clearing previous output deletes
\* exactly the document objects tagged truss_member and leaves every other
\* object of the document unchanged.
C17_CreatedLinesTaggedAndOnlyTaggedCleared ==
    TrussRequested =>
        /\ \A k \in DOMAIN doc :
                doc[k].id >= last.before.nextId =>
                    /\ doc[k].object_type = "truss_member"
                    /\ \A j \in DOMAIN Body.truss_members :
                            Body.truss_members[j].id = doc[k].id =>
                                doc[k].member_type = Body.truss_members[j].type
        /\ SelectSeq(doc, LAMBDA o : o.id < last.before.nextId) =
                IF Truthy(TrussInput.clear_previous)
                THEN Untagged(last.before.doc) ELSE last.before.doc

\* A request with clear_previous deleted the tagged lines of the document and
\* kept the curve the user drew.
C17_ClearedTaggedKeptUserCurve ==
    /\ TrussRequested
    /\ Truthy(TrussInput.clear_previous)
    /\ Tagged(last.before.doc) # <<>>
    /\ Untagged(last.before.doc) # <<>>
    /\ SelectSeq(doc, LAMBDA o : o.id < last.before.nextId) = Untagged(last.before.doc)
    /\ Body.success
    /\ Len(Tagged(doc)) = Len(Body.truss_members)

\* The request last served repeats the one before it on the same document:
\* identical inputs, clear_previous=true, and the host behaving alike.
Repeated ==
    /\ TrussRequested
    /\ prev.handled
    /\ prev.req = last.req
    /\ prev.fault = last.fault
    /\ Truthy(TrussInput.clear_previous)

\* C18: two consecutive generate_truss requests with identical inputs and
\* clear_previous=true return the same number of members with the same
\* sequence of member types, and after the second request the document objects
\* tagged truss_member are exactly the members the second request returned.
C18_RepeatedGenerationDoesNotAccumulate ==
    Repeated =>
        /\ Len(Body.truss_members) = Len(prev.out.sent[1].body.truss_members)
        /\ \A j \in DOMAIN Body.truss_members :
                Body.truss_members[j].type = prev.out.sent[1].body.truss_members[j].type
        /\ {<<Tagged(doc)[k].id, Tagged(doc)[k].member_type>> : k \in DOMAIN Tagged(doc)} =
                {<<Body.truss_members[j].id, Body.truss_members[j].type>> :
                    j \in DOMAIN Body.truss_members}

\* A request was repeated with every line created both times: the second
\* truss replaced the first.
C18_RepeatedWithEveryLineCreated ==
    /\ Repeated
    /\ EveryLineCreated
    /\ Body.success
    /\ Len(Body.truss_members) = Len(prev.out.sent[1].body.truss_members)
    /\ Len(Tagged(doc)) = Len(Body.truss_members)
    /\ Tagged(last.before.doc) # <<>>

(* ---------------------- properties of the tool calls ------------------- *)
\* The last tool call returned a dictionary with success=false and an error.
ReturnedFailure ==
    /\ "exception" \notin DOMAIN call.result
    /\ "success" \in DOMAIN call.result
    /\ call.result.success = FALSE
    /\ "error" \in DOMAIN call.result

\* C19: with no bridge process listening on the configured address, every
\* call of every registered tool returns a JSON object with success=false
\* whose error string contains the address of the bridge; no call raises
\* (requests.post is given a timeout of 10 seconds, so the call ends).
C19_UnreachableBridgeReported ==
    (call.made /\ ~call.listening) =>
        /\ ReturnedFailure
        /\ \E i \in DOMAIN call.result.error : call.result.error[i] = BRIDGE_URL

\* The truss tool was called with no bridge listening and the connection was
\* not made in time.
C19_TrussToolCalledUnreachable ==
    /\ call.made
    /\ ~call.listening
    /\ call.tool.name = "typical_roof_truss_generator"
    /\ call.transport.kind = "connect_timeout"
    /\ ReturnedFailure

\* The call failed at the transport level: no connection, no answer in time,
\* a connection lost, a status of 400 or above, or a body that is no JSON.
TransportFailed ==
    \/ call.transport.kind # "delivered"
    \/ call.http >= 400

\* C20: for every transport-level failure of a call (connection refused,
\* timeout, a non-2xx status of the bridge: 400, 404 or 500, a response body
\* that is no JSON) call_bridge_api returns a JSON object with success=false
\* and an error string, and never raises an exception to the tool layer.
C20_TransportFailureReturned ==
    (call.made /\ TransportFailed) => ReturnedFailure

\* A call was answered with a body that is no JSON, for which response.json()
\* raised json.JSONDecodeError, and the last except clause returned the error.
C20_NotJsonReturned ==
    /\ call.made
    /\ call.transport.kind = "not_json"
    /\ call.transport.decoder = "json.JSONDecodeError"
    /\ ReturnedFailure
    /\ call.result.error[1] = "Invalid response from bridge server: "

\* The bridge answered the last call with a status of 400 or above and a JSON
\* body (send_error_response writes success, error and status_code).
AnsweredWithErrorStatus ==
    /\ call.made
    /\ call.transport.kind = "delivered"
    /\ call.http >= 400

\* C21: when the bridge answers a call with a non-2xx status and a body that
\* decodes as JSON, call_bridge_api returns the content of that body, so the
\* success=false, error and status_code fields of the bridge reach the caller;
\* the client makes up its own result only when the body cannot be decoded.
C21_ErrorBodyReachesCaller ==
    AnsweredWithErrorStatus => call.result = call.transport.response.body

\* A call was answered 404 with the JSON body of send_error_response and the
\* caller received the result of the RequestException clause in its place.
C21_ErrorBodyReplacedByClient ==
    /\ AnsweredWithErrorStatus
    /\ call.http = 404
    /\ "status_code" \in DOMAIN call.transport.response.body
    /\ call.transport.response.body.status_code = 404
    /\ "status_code" \notin DOMAIN call.result
    /\ call.result.error = <<"Bridge API request failed: ", 404>>

(* ------------------ properties of repeated registration ---------------- *)
\* get_all_tools(): the descriptors of both tool lists.
AllTools == _rhino_tools \o _gh_tools

\* C22: after discover_tools(), every tool name maps to exactly one
\* descriptor across the whole registry: a name registered a second time
\* replaces the earlier registration, it is never kept as two descriptors.
\* (_bridge_handlers is a dictionary, so an endpoint has one handler.)
C22_OneDescriptorPerName ==
    disc.done =>
        \A i, j \in DOMAIN AllTools : AllTools[i].name = AllTools[j].name => i = j

\* The added module registered test_echo, which test_tools registers too, and
\* the registry holds both descriptors.
C22_TestEchoRegisteredTwice ==
    /\ disc.done
    /\ "added_tools" \in sys_modules
    /\ \E i, j \in DOMAIN AllTools :
           /\ i # j
           /\ AllTools[i].name = "test_echo"
           /\ AllTools[j].name = "test_echo"
           /\ AllTools[i].function.def = "test_tools.test_echo"
           /\ AllTools[j].function.def = "added_tools.added_tool"

(* --------------------- properties of failed imports -------------------- *)
\* C23: in the discover_tools() call the server makes when it starts, a module
\* whose load raises does not stop discovery: every other module of the
\* directory is loaded and its tools and handlers are registered,
\* discover_tools() returns, and the working directory of the process after
\* the call is the one before it.
C23_FailedModuleDoesNotStopDiscovery ==
    (disc.done /\ disc.warned # {}) =>
        /\ \A m \in ToolModules \ disc.warned :
              m \in sys_modules /\ m \in disc.discovered /\ AllRegistered(m)
        /\ cwd = LaunchDir

\* utility_tools raised when it was imported, and the modules listed after it
\* and before it are loaded and registered.
C23_UtilityToolsRaisedOthersLoaded ==
    /\ disc.done
    /\ disc.warned = {"utility_tools"}
    /\ disc.discovered = {"gh_tools", "rhino_tools", "test_tools"}
    /\ AllRegistered("gh_tools")
    /\ AllRegistered("test_tools")
    /\ _rhino_tools[1].name = "test_echo"
    /\ cwd = LaunchDir

(* -------------------- properties of repeated discovery ----------------- *)
\* The first discover_tools() call of a process executes every module that
\* imports, so after it the registries hold what those modules declare.
\* C24: a later discover_tools() call in the same process yields the same
\* tool and handler descriptors as the first: after every call the registries
\* hold the descriptors of every loaded module, none duplicated and none lost.
C24_RediscoveryYieldsSameDescriptors ==
    disc.done =>
        /\ \A m \in sys_modules : AllRegistered(m)
        /\ \A i, j \in DOMAIN AllTools : AllTools[i].name = AllTools[j].name => i = j

\* discover_tools() was called again: it printed "Discovered tools from" for
\* the three modules that import, which sys.modules held already, and the
\* registries it had cleared stayed empty.
C24_RediscoveryLeftRegistriesEmpty ==
    /\ disc.done
    /\ disc.discovered = {"gh_tools", "rhino_tools", "test_tools"}
    /\ sys_modules = {"gh_tools", "rhino_tools", "test_tools"}
    /\ AllTools = <<>>
    /\ DOMAIN _bridge_handlers = {}

(* -------------------- properties of the bridge server ------------------ *)
\* C25: handler executions on the bridge are serialized: at no time are two
\* handlers executing, so the host document is never changed by two bridge
\* requests at once, whatever the number of clients sending requests.
C25_HandlersSerialized ==
    Cardinality(executing) <= 1

\* A handler is executing for one client while the request of another client
\* waits for the server thread.
C25_SecondClientWaits ==
    /\ Cardinality(executing) = 1
    /\ Len(backlog) = 1
    /\ \A e \in executing : e.client # backlog[1].client /\ e.req.path = "/draw_line"
    /\ backlog[1].req.path = "/draw_line"

\* The instances whose thread is in serve_forever.
Serving == {i \in DOMAIN servers : servers[i].thread /\ servers[i].server = "open"}

\* C30: after any sequence of start_bridge_server and stop_bridge_server
\* calls at most one bridge server thread is serving: start_bridge_server
\* called while a server is running returns that instance and creates no
\* other, stop_bridge_server leaves no server serving and get_bridge_server()
\* returning None, and a start after a stop yields a new running server.
C30_AtMostOneServerServing ==
    /\ Cardinality({i \in DOMAIN servers : servers[i].thread}) <= 1
    /\ Cardinality({i \in DOMAIN servers : servers[i].server = "open"}) <= 1
    /\ (lifecycle.op = "start" /\ lifecycle.running) =>
            /\ lifecycle.returned = lifecycle.before
            /\ bridge_server = lifecycle.before
            /\ Serving = {lifecycle.before}
    /\ lifecycle.op = "stop" =>
            /\ Serving = {}
            /\ bridge_server = 0
    /\ (lifecycle.op = "start" /\ lifecycle.before = 0) =>
            /\ lifecycle.returned = Len(servers)
            /\ bridge_server = lifecycle.returned
            /\ Serving = {lifecycle.returned}

\* start_bridge_server was called with the second instance running, the
\* first having been stopped: it returned the second and created no third.
C30_StartWhileRunningAfterRestart ==
    /\ lifecycle.op = "start"
    /\ lifecycle.running
    /\ lifecycle.before = 2
    /\ lifecycle.returned = 2
    /\ Len(servers) = 2
    /\ servers[1] = RhinoBridgeServer("closed", FALSE, TRUE)
    /\ Serving = {2}

(* -------------------- properties of failed generation ------------------ *)
\* C26: if a generate_truss request is answered with success=false (or with
\* an error status), the host document holds exactly the objects it held
\* before the request: no truss member generated earlier has been deleted and
\* no line has been added.
C26_FailedRequestLeavesDocument ==
    (TrussRequested /\ (Response.http >= 400 \/ ~Body.success)) =>
        doc = last.before.doc

\* A request answered success=false deleted the truss generated before it and
\* left the lines it had created before rs.AddLine raised.
C26_FailedRequestReplacedTruss ==
    /\ TrussRequested
    /\ Response.http = 200
    /\ ~Body.success
    /\ Tagged(last.before.doc) # <<>>
    /\ \A k \in DOMAIN Tagged(last.before.doc) :
            \A j \in DOMAIN doc : doc[j].id # Tagged(last.before.doc)[k].id
    /\ \E j \in DOMAIN doc : doc[j].id >= last.before.nextId

\* C27: a generate_truss request with num_divisions <= 0 adds no object to
\* the host document and is answered with success=false and an empty
\* truss_members list; it is never reported as a successful truss.
C27_NoDivisionsNoTruss ==
    (TrussRequested /\ Divisions <= 0) =>
        /\ \A j \in DOMAIN doc : doc[j].id < last.before.nextId
        /\ nextId = last.before.nextId
        /\ Body.success = FALSE
        /\ Body.truss_members = <<>>

\* A Howe truss with num_divisions = -1 was requested on a document that
\* held a curve of the user.
C27_NegativeDivisionsServed ==
    /\ TrussRequested
    /\ Divisions = -1
    /\ TrussInput.truss_type = JStr("Howe")
    /\ doc = last.before.doc
    /\ doc # <<>>
    /\ Response.http = 200
    /\ Body.success = FALSE

(* ------------------ properties of the slider updates ------------------- *)
\* The last set_slider call named a slider of the canvas with a number and
\* reached the loop over gh_doc.Objects.
SingleUpdate ==
    /\ single.made
    /\ single.importable
    /\ single.before.plugin
    /\ single.before.canvas
    /\ "slider_name" \in DOMAIN single.data
    /\ ~FloatRaises(single.data.new_value)
    /\ single.data.slider_name.s \in DOMAIN NameCounts(single.before.sliders)

\* The sliders of the name the last set_slider call asked for.
SingleNamed == {i \in DOMAIN single.before.sliders :
                    NickNameOrUnnamed(single.before.sliders[i]) = single.data.slider_name.s}

\* The k-th item of the last set_multiple_sliders call named a slider of the
\* canvas with a number, and the call reached the batch loop.
BatchUpdate(k) ==
    /\ ReachedBatchLoop
    /\ batch.data.slider_updates.kind = "dict"
    /\ k \in DOMAIN batch.data.slider_updates.items
    /\ ~FloatRaises(batch.data.slider_updates.items[k].value)
    /\ batch.data.slider_updates.items[k].name \in DOMAIN NameCounts(batch.before.sliders)

\* max(min, min(max, v)) for the bounds of slider obj.
Clamp(obj, v) ==
    IF FLeq(v, obj.Minimum) THEN obj.Minimum
    ELSE IF FLeq(obj.Maximum, v) THEN obj.Maximum ELSE v

\* C28: for every slider update, single or batch, on an existing slider with
\* bounds [min, max] and requested value v, the slider's value after the
\* request and the reported new_value both equal max(min, min(max, v)), and
\* the clamped flag is true exactly when that value differs from v. Host calls
\* that raise for reasons of their own (the recompute, the assignment) are
\* left out.
C28_ValueAndReportAreTheClamp ==
    /\ (SingleUpdate /\ single.fault.kind = "ok") =>
            \E i \in SingleNamed :
                LET v == Float(single.data.new_value)
                    c == Clamp(single.before.sliders[i], v)
                IN  /\ gh_host.sliders[i].Value = c
                    /\ single.out.response.success
                    /\ single.out.response.new_value = c
                    /\ single.out.response.clamped <=> (c # v)
    /\ \A k \in 1..(MaxUpdates + 1) :
            (/\ BatchUpdate(k)
             /\ batch.fault.kind = "ok"
             /\ Len(batch.data.slider_updates.items) = 1) =>
                \E i \in DOMAIN batch.before.sliders :
                    LET item == batch.data.slider_updates.items[k]
                        v == Float(item.value)
                        c == Clamp(batch.before.sliders[i], v)
                    IN  /\ NickNameOrUnnamed(batch.before.sliders[i]) = item.name
                        /\ gh_host.sliders[i].Value = c
                        /\ batch.out.response.results[k].success
                        /\ batch.out.response.results[k].new_value = c
                        /\ batch.out.response.results[k].clamped <=> (c # v)

\* A set_slider call asked 1/100000 of slider "A", whose bounds are [0, 10],
\* and was answered with an error, the slider keeping its value.
C28_SmallValueRejected ==
    /\ SingleUpdate
    /\ single.fault.kind = "ok"
    /\ single.data.slider_name.s = "A"
    /\ single.data.new_value.v = Frac(1, 10 * PointNotationFrom)
    /\ ~single.out.response.success
    /\ gh_host.sliders = single.before.sliders

\* The sliders whose value the last set_slider call changed.
SingleChanged == {i \in DOMAIN gh_host.sliders :
                    gh_host.sliders[i].Value # single.before.sliders[i].Value}

\* The sliders whose value a set_multiple_sliders call with the one name and
\* value of the last set_slider call changes on the same canvas.
BatchChangedFor ==
    LET out == handle_set_multiple_sliders(
                    [slider_updates |->
                        [kind |-> "dict",
                         items |-> <<[name |-> single.data.slider_name.s,
                                      value |-> single.data.new_value]>>]],
                    [kind |-> "ok", at |-> 1], single.before, single.importable)
    IN  {i \in DOMAIN out.host.sliders :
            out.host.sliders[i].Value # single.before.sliders[i].Value}

\* C29: when several sliders share the requested name (unnamed sliders
\* included, under 'Unnamed'), a set_slider request and a
\* set_multiple_sliders request with that single name change the same slider
\* object, and at most one slider changes its value.
C29_SingleAndBatchChangeSameSlider ==
    (/\ SingleUpdate
     /\ single.fault.kind = "ok"
     /\ Cardinality(SingleNamed) > 1) =>
        /\ SingleChanged = BatchChangedFor
        /\ Cardinality(SingleChanged) <= 1

\* A set_slider call for 'Unnamed' on a canvas with two unnamed sliders
\* changed the first of them, where the batch changes the last.
C29_FirstUnnamedChangedBatchChangesLast ==
    /\ SingleUpdate
    /\ single.fault.kind = "ok"
    /\ single.data.slider_name.s = "Unnamed"
    /\ Cardinality(SingleNamed) = 2
    /\ \E i, j \in SingleNamed :
            i < j /\ SingleChanged = {i} /\ BatchChangedFor = {j}

====
